---- MODULE Spec2Model ----
(***************************************************************************)
(* A model of claude-code-sdk-go: the subprocess transport                 *)
(* (internal/transport/subprocess.go) and the Client.Query facade          *)
(* (client.go).  One query is modelled: the caller ("main"), the producer  *)
(* goroutine of ReceiveMessages ("prod"), the forwarding goroutine of      *)
(* Client.Query ("fwd"), the nested stderr reader of                       *)
(* handleProcessCompletion ("errd"), the subprocess and the context.       *)
(***************************************************************************)
EXTENDS Integers, Sequences, FiniteSets, TLC

\* ------------------------------------------------------------------ bounds
\* Lines of a mixed stdout input.
MaxLines == 2
\* Capacity used for messageCh and wrappedCh.  The code makes both with 10
\* slots (subprocess.go:117, client.go:62); the behaviour depends on the
\* capacity only through "has room" / "is full", and the model keeps it small
\* so that a full channel is reached by a short stdout.
ChanCap == 2
\* Stdout lines the OS pipe holds before the subprocess blocks writing.
PipeBuf == 1
\* Transport calls an API-mode caller makes after Connect.
MaxCalls == 3

\* --------------------------------------------------------------- constants
maxBufferSize == 1024 * 1024
\* bufio.NewScanner is used with its default buffer: a line of this many
\* bytes or more makes Scan fail with bufio.ErrTooLong.
MaxScanTokenSize == 64 * 1024
\* Bytes the OS pipe made by StdoutPipe holds for a reader that does not read.
PipeBytes == 64 * 1024
stderrChanCap == 100
maxStderrSize == 10 * 1024 * 1024

NIL == "nil"
SET == "set"

Tasks == {"main", "prod", "fwd", "errd"}
PipeNames == <<"stdin", "stdout", "stderr">>

\* ------------------------------------------------------------------ inputs
\* A stdout line: its length in bytes and what it holds.
\*   blank      nothing but white space
\*   badjson    text json.Unmarshal rejects (no JSON, or JSON that is no object)
\*   null       the JSON value null, which json.Unmarshal accepts into a nil map
\*   control    an object with "type":"control_response"
\*   unparsable an object ParseMessage rejects
\*   msg        an object ParseMessage accepts
SmallLen == 20
Lines ==
    {[len |-> 0, body |-> "blank"]}
    \cup {[len |-> SmallLen, body |-> b] :
             b \in {"badjson", "null", "control", "unparsable", "msg"}}
    \cup {[len |-> MaxScanTokenSize, body |-> "msg"],
          [len |-> MaxScanTokenSize, body |-> "badjson"],
          [len |-> maxBufferSize + 1, body |-> "msg"]}

MsgLine == [len |-> SmallLen, body |-> "msg"]

SeqsUpTo(S, n) == UNION {[1..k -> S] : k \in 0..n}

\* A run of well-formed lines long enough to fill both channels, the
\* forwarder's and the producer's hands, and leave one line to read.
LongRun == [i \in 1..(2 * ChanCap + 3) |-> MsgLine]

StdoutInputs == SeqsUpTo(Lines, MaxLines) \cup {LongRun}
CancelInputs == {<<>>, <<MsgLine>>, LongRun}

\* The stderr lines of the inputs and len(line) of each: a short line, the
\* longest line a bufio.Scanner returns, and a line of 160 bytes.
BigLine == "<65535 bytes>"
TailLine == "<160 bytes>"
LineSize(l) ==
    CASE l = "boom" -> 4
      [] l = BigLine -> MaxScanTokenSize - 1
      [] l = TailLine -> 160
      [] OTHER -> 0

\* What the subprocess does when left alone: its exit code and its stderr.
ExitInputs == {[code |-> 0, stderr |-> <<>>],
               [code |-> 3, stderr |-> <<"boom">>]}

CLIPaths == {"", "/usr/bin/claude", "/opt/tools/fake-cli", "/opt/claude/cli.js"}
CWDs == {"", "/work", "/missing"}
ExistingDirs == {"/work"}
FoundCLI == "/usr/local/bin/claude"

\* Whether the path names "claude" in any of its elements.
MentionsClaude(p) ==
    IF p \in {"/usr/bin/claude", "/usr/local/bin/claude", "/opt/claude/cli.js"}
    THEN "claude" ELSE p
\* filepath.Base, on the paths of the model.
Base(p) ==
    CASE p = "/usr/bin/claude" -> "claude"
      [] p = "/usr/local/bin/claude" -> "claude"
      [] p = "/opt/tools/fake-cli" -> "fake-cli"
      [] p = "/opt/claude/cli.js" -> "cli.js"
      [] OTHER -> p

VARIABLES
    mode,         \* "query": Client.Query drives the transport; "api": a caller of the transport's methods
    t,            \* the SubprocessTransport: cliPath, cwd, cmd, stdin, stdout, stderr
    pipe,         \* the parent's end of each pipe: "none", "open", "closed"
    proc,         \* the subprocess: st (none, running, exited, reaped), code, stderr written
    plan,         \* the subprocess's script: stdout lines, exit code, stderr lines
    written,      \* stdout lines the subprocess has written
    rd,           \* stdout lines the scanner has returned
    ctxDone,      \* the context is cancelled
    pc,           \* where each task is
    messageCh,    \* the transport channel and whether it is closed
    fmsg,         \* the message the forwarder is sending
    wrappedCh,    \* the caller-facing channel and whether it is closed
    received,     \* the messages the caller has received, in order
    stderrChan,   \* the stderr reader's channel and whether it is closed
    erd,          \* stderr lines the reader has scanned
    stderrLines,  \* handleProcessCompletion's accumulator
    stderrSize,   \* handleProcessCompletion's stderrSize
    exitCode,     \* handleProcessCompletion's exitCode
    firstErr,     \* cleanup's firstErr, in a Disconnect whose caller sees it
    mayCancel,    \* whether the caller of this run ever cancels the context
    result,       \* what Connect, Query and the API calls returned
    calls,        \* API-mode calls made so far
    panicked,     \* a goroutine dereferenced nil: the program is gone
    options,      \* the QueryOptions of the call
    prompt,       \* the prompt of the call
    cmd,          \* the exec.Cmd built by Connect: path, args, dir
    world,        \* several queries of one Client: the transports, pipes, processes, channels
    data,         \* the decoded JSON value handed to ParseMessage
    parsed,       \* what ParseMessage returned: message and error
    chain         \* the SDK errors constructed so far, each wrapping an earlier error or none

vars == <<mode, t, pipe, proc, plan, written, rd, ctxDone, pc,
          messageCh, fmsg, wrappedCh, received, stderrChan, erd, stderrLines, stderrSize,
          exitCode, firstErr, mayCancel, result, calls, panicked,
          options, prompt, cmd, world, data, parsed, chain>>

\* ---------------------------------------------------------------- channels
EmptyChan == [q |-> <<>>, closed |-> FALSE]
\* A channel without a bound: a send never waits.
AlwaysRoom(ch, cap) == TRUE
HasRoom(ch, cap) == Len(ch.q) < cap
ChanSend(ch, m) == [ch EXCEPT !.q = Append(@, m)]
ChanHeadNewest(ch) == ch.q[Len(ch.q)]
ChanHead(ch) == Head(ch.q)
ChanPop(ch) == [ch EXCEPT !.q = Tail(@)]
ChanClose(ch) == [ch EXCEPT !.closed = TRUE]

NoMsg == [k |-> "none", id |-> 0, code |-> 0, text |-> <<>>]
Msg(k, id) == [k |-> k, id |-> id, code |-> 0, text |-> <<>>]

\* ------------------------------------------------------------------ errors
\* An error value: its type, its message, the fields of its type and the
\* error it wraps.
Err(kind, msg) ==
    [kind |-> kind, msg |-> msg, cliPath |-> "", exitCode |-> 0, stderr |-> "",
     rawData |-> "", cause |-> NIL]
NoErr == Err(NIL, "")
NewClaudeSDKError(message, cause) ==
    [Err("ClaudeSDKError", message) EXCEPT !.cause = cause]
NewCLIConnectionError(message, cause) ==
    [Err("CLIConnectionError", message) EXCEPT !.cause = cause]
NewCLINotFoundError(cliPath, cause) ==
    [Err("CLINotFoundError", "Claude Code CLI not found at path: " \o cliPath)
        EXCEPT !.cliPath = cliPath, !.cause = cause]
NewProcessError(message, code, stderrText, cause) ==
    [Err("ProcessError", message)
        EXCEPT !.exitCode = code, !.stderr = stderrText, !.cause = cause]

NewCLIJSONDecodeError(message, rawData, cause) ==
    [Err("CLIJSONDecodeError", message) EXCEPT !.rawData = rawData, !.cause = cause]
NewMessageParseError(message, rawData, cause) ==
    [Err("MessageParseError", message) EXCEPT !.rawData = rawData, !.cause = cause]

\* The errors of the operating system that Connect wraps.
LookupError == "claude not found"
StatError == "stat failed"
PipeError == "pipe failed"
StartError == "start failed"

\* ------------------------------------------------------------- buildCommand
\* QueryOptions.  isNil marks the nil pointer; McpServers is the set of the
\* map's keys, every server configuration being the zero McpServerConfig.
DefaultOptions ==
    [isNil |-> FALSE, SystemPrompt |-> "", AppendSystemPrompt |-> "",
     AllowedTools |-> <<>>, MaxTurns |-> 0, DisallowedTools |-> <<>>,
     Model |-> "", PermissionPromptToolName |-> "", PermissionMode |-> "",
     ContinueConversation |-> FALSE, Resume |-> "", McpServers |-> {},
     MaxThinkingTokens |-> 0, CWD |-> ""]
NilOptions == [DefaultOptions EXCEPT !.isNil = TRUE]

\* strings.Join(elems, sep)
RECURSIVE Join(_, _)
Join(elems, sep) ==
    IF elems = <<>> THEN ""
    ELSE IF Len(elems) = 1 THEN elems[1]
    ELSE elems[1] \o sep \o Join(Tail(elems), sep)

\* The server names of the model, in the order json.Marshal writes map keys.
ServerNames == <<"fs", "git">>
\* json.Marshal(map[string]any{"mcpServers": servers}): keys sorted, a zero
\* McpServerConfig written as {}.
MarshalMcpConfig(servers) ==
    LET keys == SelectSeq(ServerNames, LAMBDA k : k \in servers)
        members == [i \in 1..Len(keys) |-> "\"" \o keys[i] \o "\":{}"]
    IN "{\"mcpServers\":{" \o Join(members, ",") \o "}}"

MaxTurnsNonZero(o) == o.MaxTurns # 0
\* if options.MaxTurns > 0
MaxTurnsSet(o) == o.MaxTurns > 0

buildCommand(o, p) ==
    <<"--output-format", "stream-json", "--verbose">>
    \o (IF o.isNil THEN <<>> ELSE
          (IF o.SystemPrompt # "" THEN <<"--system-prompt", o.SystemPrompt>> ELSE <<>>)
       \o (IF o.AppendSystemPrompt # ""
           THEN <<"--append-system-prompt", o.AppendSystemPrompt>> ELSE <<>>)
       \o (IF Len(o.AllowedTools) > 0
           THEN <<"--allowedTools", Join(o.AllowedTools, ",")>> ELSE <<>>)
       \o (IF MaxTurnsSet(o) THEN <<"--max-turns", ToString(o.MaxTurns)>> ELSE <<>>)
       \o (IF Len(o.DisallowedTools) > 0
           THEN <<"--disallowedTools", Join(o.DisallowedTools, ",")>> ELSE <<>>)
       \o (IF o.Model # "" THEN <<"--model", o.Model>> ELSE <<>>)
       \o (IF o.PermissionPromptToolName # ""
           THEN <<"--permission-prompt-tool", o.PermissionPromptToolName>> ELSE <<>>)
       \o (IF o.PermissionMode # ""
           THEN <<"--permission-mode", o.PermissionMode>> ELSE <<>>)
       \o (IF o.ContinueConversation THEN <<"--continue">> ELSE <<>>)
       \o (IF o.Resume # "" THEN <<"--resume", o.Resume>> ELSE <<>>)
       \o (IF Cardinality(o.McpServers) > 0
           THEN <<"--mcp-config", MarshalMcpConfig(o.McpServers)>> ELSE <<>>))
    \o <<"--print", p>>

\* exec.CommandContext(ctx, path, args...): Dir is not set yet.
NoCmd == [path |-> "", args |-> <<>>, dir |-> ""]
CommandContext(path, args) == [path |-> path, args |-> args, dir |-> ""]

\* Nothing of the kind exists: no second query, no value to parse, no result.
NoWorld == "none"
NoData == "none"
NoResult == [called |-> FALSE]

\* ------------------------------------------------------------------- Init
NewSubprocessTransport(cliPath, cwd) ==
    [cliPath |-> cliPath, cwd |-> cwd, cmd |-> NIL,
     stdin |-> NIL, stdout |-> NIL, stderr |-> NIL]

InitRest ==
    /\ pipe = [p \in {"stdin", "stdout", "stderr"} |-> "none"]
    /\ proc = [st |-> "none", code |-> 0, stderr |-> <<>>]
    /\ written = 0
    /\ rd = 0
    /\ ctxDone = FALSE
    /\ pc = [k \in Tasks |-> IF k = "main" THEN "start" ELSE "idle"]
    /\ messageCh = EmptyChan
    /\ fmsg = NoMsg
    /\ wrappedCh = EmptyChan
    /\ received = <<>>
    /\ stderrChan = EmptyChan
    /\ erd = 0
    /\ stderrLines = <<>>
    /\ stderrSize = 0
    /\ exitCode = 0
    /\ firstErr = NIL
    /\ result = [connect |-> Err("none", ""), stream |-> "none",
                 disconnect |-> "none"]
    /\ calls = 0
    /\ panicked = FALSE
    /\ cmd = NoCmd

\* The options of the configurations: none, and a working directory that is
\* unset, exists, or does not exist.
ConfigOptions ==
    {NilOptions} \cup {[DefaultOptions EXCEPT !.CWD = d] : d \in CWDs}

\* Every configuration, with a subprocess that prints nothing.
InitConfigs ==
    /\ mode \in {"query", "api"}
    /\ mayCancel \in BOOLEAN
    /\ \E p \in CLIPaths, d \in CWDs : t = NewSubprocessTransport(p, d)
    /\ plan = [stdout |-> <<>>, code |-> 0, stderr |-> <<>>]
    /\ options \in ConfigOptions
    /\ prompt = "hello"

\* Every subprocess script, under one configuration.
InitStreams ==
    /\ mode = "query"
    /\ t = NewSubprocessTransport("/usr/bin/claude", "")
    /\ mayCancel = FALSE
    /\ \E out \in StdoutInputs, e \in ExitInputs :
          plan = [stdout |-> out, code |-> e.code, stderr |-> e.stderr]
    /\ options = NilOptions
    /\ prompt = "hello"

\* Queries whose caller may cancel the context at any moment.
InitCancels ==
    /\ mode = "query"
    /\ t = NewSubprocessTransport("/usr/bin/claude", "")
    /\ mayCancel = TRUE
    /\ \E out \in CancelInputs, e \in ExitInputs :
          plan = [stdout |-> out, code |-> e.code, stderr |-> e.stderr]
    /\ options = NilOptions
    /\ prompt = "hello"

\* One query is followed: there is no world of several, and nothing is parsed.
NothingElse ==
    world = NoWorld /\ data = NoData /\ parsed = NoResult /\ chain = <<>>

Init == (InitConfigs \/ InitStreams \/ InitCancels) /\ InitRest /\ NothingElse

\* ---------------------------------------------------------------- Connect
ConnectEnvs ==
    [find : BOOLEAN, pipeFail : {"none", "stdin", "stdout", "stderr"}, start : BOOLEAN]

NoPipes == [p \in {"stdin", "stdout", "stderr"} |-> "none"]
AllPipes(st) == [p \in {"stdin", "stdout", "stderr"} |-> st]

WorkingDirUnchecked(tt) == FALSE
\* A Connect that leaves the stdin pipe as Start found it.
StdinLeftOpen(pp) == pp
\* if t.stdin != nil { t.stdin.Close() }, after a successful Start.
CloseStdin(pp) == [pp EXCEPT !["stdin"] = "closed"]
\* os.Stat(t.cwd) fails for a working directory that is set.
WorkingDirMissing(tt) == tt.cwd # "" /\ tt.cwd \notin ExistingDirs

\* Connect, from the transport tt and what the environment answers (whether
\* FindCLI finds the executable, which pipe cannot be made, whether the process
\* starts): the transport, the pipes, whether a process runs, and the error.
Connect(tt, env) ==
    IF tt.cliPath = "" /\ ~env.find
    THEN [t |-> tt, pipe |-> NoPipes, started |-> FALSE, cmd |-> cmd,
          err |-> NewCLINotFoundError("", LookupError)]
    ELSE
    LET t1 == [tt EXCEPT !.cliPath = IF @ = "" THEN FoundCLI ELSE @, !.cmd = SET]
        c1 == CommandContext(t1.cliPath, buildCommand(options, prompt))
        c2 == [c1 EXCEPT !.dir = t1.cwd]
    IN
    IF WorkingDirMissing(t1)
    THEN [t |-> t1, pipe |-> NoPipes, started |-> FALSE, cmd |-> c1,
          err |-> NewCLIConnectionError("Working directory does not exist", StatError)]
    ELSE IF env.pipeFail = "stdin"
    THEN [t |-> t1, pipe |-> NoPipes, started |-> FALSE, cmd |-> c2,
          err |-> NewCLIConnectionError("failed to create stdin pipe", PipeError)]
    ELSE IF env.pipeFail = "stdout"
    THEN [t |-> [t1 EXCEPT !.stdin = SET],
          pipe |-> [NoPipes EXCEPT !["stdin"] = "open"], started |-> FALSE,
          cmd |-> c2,
          err |-> NewCLIConnectionError("failed to create stdout pipe", PipeError)]
    ELSE IF env.pipeFail = "stderr"
    THEN [t |-> [t1 EXCEPT !.stdin = SET, !.stdout = SET],
          pipe |-> [NoPipes EXCEPT !["stdin"] = "open", !["stdout"] = "open"],
          started |-> FALSE, cmd |-> c2,
          err |-> NewCLIConnectionError("failed to create stderr pipe", PipeError)]
    ELSE
    LET t2 == [t1 EXCEPT !.stdin = SET, !.stdout = SET, !.stderr = SET] IN
    IF ~env.start
    THEN \* cmd.Start closes the pipes it made when it fails
         [t |-> t2, pipe |-> AllPipes("closed"), started |-> FALSE, cmd |-> c2,
          err |-> IF Base(t2.cliPath) = "claude"
                  THEN NewCLINotFoundError(t2.cliPath, StartError)
                  ELSE NewProcessError("failed to start CLI process", 0, "", StartError)]
    ELSE \* started; stdin is closed at once
         [t |-> t2, pipe |-> CloseStdin(AllPipes("open")),
          started |-> TRUE, cmd |-> c2, err |-> NoErr]

\* ReceiveMessages' guard: the transport counts as connected when cmd is set.
Connected(tt) == tt.cmd # NIL

Running == [st |-> "running", code |-> 0, stderr |-> <<>>]

\* Client.Query: Connect, ReceiveMessages, and the forwarding goroutine.
Query ==
    /\ mode = "query" /\ pc["main"] = "start"
    /\ \E env \in ConnectEnvs :
         LET c == Connect(t, env) IN
         /\ t' = c.t
         /\ pipe' = c.pipe
         /\ proc' = IF c.started THEN Running ELSE proc
         /\ cmd' = c.cmd
         /\ IF c.err.kind # NIL
            THEN /\ result' = [result EXCEPT !.connect = c.err, !.stream = NIL]
                 /\ pc' = [pc EXCEPT !["main"] = "returned"]
            ELSE IF ~Connected(c.t)
            THEN /\ result' = [result EXCEPT !.connect = c.err, !.stream = NIL]
                 /\ pc' = [pc EXCEPT !["main"] = "cl_pipes"]
            ELSE /\ result' = [result EXCEPT !.connect = c.err, !.stream = "wrappedCh"]
                 /\ pc' = [pc EXCEPT !["main"] = "recv", !["prod"] = "scan", !["fwd"] = "recv"]
    /\ UNCHANGED <<mode, plan, written, rd, ctxDone, messageCh, fmsg,
                   wrappedCh, received, stderrChan, erd, stderrLines, stderrSize,
                   exitCode, firstErr, mayCancel, calls, panicked, options,
                   prompt, world, data, parsed, chain>>

\* The caller receives from the stream Query returned.
CallerRecv ==
    /\ ~panicked /\ mode = "query" /\ pc["main"] = "recv"
    /\ IF wrappedCh.q # <<>>
       THEN /\ received' = Append(received, ChanHead(wrappedCh))
            /\ wrappedCh' = ChanPop(wrappedCh)
            /\ pc' = pc
       ELSE /\ wrappedCh.closed
            /\ pc' = [pc EXCEPT !["main"] = "closed"]
            /\ UNCHANGED <<received, wrappedCh>>
    /\ UNCHANGED <<mode, t, pipe, proc, plan, written, rd, ctxDone, messageCh,
                   fmsg, stderrChan, erd, stderrLines, stderrSize, exitCode, firstErr,
                   mayCancel, result, calls, panicked, options, prompt, cmd,
                   world, data, parsed, chain>>

\* The caller cancels the context of a connected transport.
Cancel ==
    /\ ~panicked /\ ~ctxDone /\ mayCancel
    /\ proc.st # "none"
    /\ ctxDone' = TRUE
    /\ UNCHANGED <<mode, t, pipe, proc, plan, written, rd, pc, messageCh,
                   fmsg, wrappedCh, received, stderrChan, erd, stderrLines, stderrSize,
                   exitCode, firstErr, mayCancel, result, calls, panicked,
                   options, prompt, cmd, world, data, parsed, chain>>

\* ------------------------------------------------------------- subprocess
\* A killed subprocess; what it has written to stderr stays in the pipe.
Killed(p) == [st |-> "exited", code |-> -1, stderr |-> p.stderr]

\* The write of the last line written has returned: the reader took the line,
\* or what the scanner left of it fits in the pipe, or the pipe is closed
\* (the write fails).  A line the scanner gives up on is read only up to the
\* scanner's buffer.
WriteDone ==
    IF written = rd \/ pipe["stdout"] = "closed"
    THEN TRUE
    ELSE plan.stdout[written].len <= MaxScanTokenSize + PipeBytes

\* The subprocess writes its next stdout line; it blocks while the pipe is full.
ProcWrite ==
    /\ ~panicked /\ proc.st = "running"
    /\ written < Len(plan.stdout)
    /\ WriteDone
    /\ written - rd < PipeBuf \/ pipe["stdout"] = "closed"
    /\ written' = written + 1
    /\ UNCHANGED <<mode, t, pipe, proc, plan, rd, ctxDone, pc, messageCh,
                   fmsg, wrappedCh, received, stderrChan, erd, stderrLines, stderrSize,
                   exitCode, firstErr, mayCancel, result, calls, panicked,
                   options, prompt, cmd, world, data, parsed, chain>>

\* The subprocess writes its stderr while it runs.
ProcWriteErr ==
    /\ ~panicked /\ proc.st = "running"
    /\ proc.stderr = <<>> /\ plan.stderr # <<>>
    /\ proc' = [proc EXCEPT !.stderr = plan.stderr]
    /\ UNCHANGED <<mode, t, pipe, plan, written, rd, ctxDone, pc, messageCh,
                   fmsg, wrappedCh, received, stderrChan, erd, stderrLines,
                   stderrSize, exitCode, firstErr, mayCancel, result, calls,
                   panicked, options, prompt, cmd, world, data, parsed, chain>>

\* The subprocess has written everything: it writes its stderr, if it has
\* not yet, and exits.
ProcExit ==
    /\ ~panicked /\ proc.st = "running"
    /\ written = Len(plan.stdout)
    /\ WriteDone
    /\ proc' = [st |-> "exited", code |-> plan.code, stderr |-> plan.stderr]
    /\ UNCHANGED <<mode, t, pipe, plan, written, rd, ctxDone, pc, messageCh,
                   fmsg, wrappedCh, received, stderrChan, erd, stderrLines, stderrSize,
                   exitCode, firstErr, mayCancel, result, calls, panicked,
                   options, prompt, cmd, world, data, parsed, chain>>

\* exec.CommandContext kills the process once the context is done.
CtxKill ==
    /\ ~panicked /\ ctxDone /\ proc.st = "running"
    /\ proc' = Killed(proc)
    /\ UNCHANGED <<mode, t, pipe, plan, written, rd, ctxDone, pc, messageCh,
                   fmsg, wrappedCh, received, stderrChan, erd, stderrLines, stderrSize,
                   exitCode, firstErr, mayCancel, result, calls, panicked,
                   options, prompt, cmd, world, data, parsed, chain>>

\* cmd.Wait, once the process has exited: the process is reaped and Wait
\* closes the parent's ends of the pipes.
Reaped(p) == [p EXCEPT !.st = "reaped"]
AfterWait(pp) == [n \in DOMAIN pp |-> IF pp[n] = "open" THEN "closed" ELSE pp[n]]
\* The exit code handleProcessCompletion derives from Wait's error: the exit
\* status of an ExitError (-1 for a signalled process), -1 for any other
\* error (Wait was already called), 0 for none.
WaitExitCode(p) == IF p.st = "reaped" THEN -1 ELSE p.code

\* ----------------------------------------------------------------- producer
ScanTooLong(l) == l.len >= MaxScanTokenSize

\* The loop body of ReceiveMessages for one line: the message to send, or
\* NoMsg when the line is skipped.
Classify(l, id) ==
    IF l.body = "blank" THEN NoMsg
    ELSE IF l.len > maxBufferSize THEN Msg("size_diag", id)
    ELSE IF l.body = "badjson" THEN NoMsg
    ELSE IF l.body = "control" THEN NoMsg
    ELSE IF l.body \in {"unparsable", "null"} THEN Msg("parse_diag", id)
    ELSE Msg("msg", id)

\* scanner.Scan()
Scan ==
    /\ ~panicked /\ pc["prod"] = "scan"
    /\ \/ /\ pipe["stdout"] = "closed"
          /\ pc' = [pc EXCEPT !["prod"] = "scanerr"]
          /\ rd' = rd
       \/ /\ pipe["stdout"] = "open" /\ rd < written
          /\ IF ScanTooLong(plan.stdout[rd + 1])
             THEN /\ pc' = [pc EXCEPT !["prod"] = "scanerr"]
                  /\ rd' = rd
             ELSE /\ pc' = [pc EXCEPT !["prod"] = "check"]
                  /\ rd' = rd + 1
       \/ /\ pipe["stdout"] = "open" /\ rd = written /\ proc.st # "running"
          /\ pc' = [pc EXCEPT !["prod"] = "hpc"]
          /\ rd' = rd
    /\ UNCHANGED <<mode, t, pipe, proc, plan, written, ctxDone, messageCh,
                   fmsg, wrappedCh, received, stderrChan, erd, stderrLines, stderrSize,
                   exitCode, firstErr, mayCancel, result, calls, panicked,
                   options, prompt, cmd, world, data, parsed, chain>>

\* A producer started on a transport whose stdout was never made.
ScanNil ==
    /\ ~panicked /\ pc["prod"] = "scan_nil"
    /\ panicked' = TRUE
    /\ UNCHANGED <<mode, t, pipe, proc, plan, written, rd, ctxDone, pc,
                   messageCh, fmsg, wrappedCh, received, stderrChan, erd,
                   stderrLines, stderrSize, exitCode, firstErr, mayCancel, result, calls,
                   options, prompt, cmd, world, data, parsed, chain>>

\* The line scanner.Text() holds, line rd of stdout, and its message.
line == plan.stdout[rd]
cur == Classify(line, rd)

\* A loop body without the cancellation check at its top.
CheckSkipped ==
    /\ ~panicked /\ pc["prod"] = "check"
    /\ pc' = [pc EXCEPT !["prod"] = IF cur = NoMsg THEN "scan" ELSE "send"]
    /\ UNCHANGED <<mode, t, pipe, proc, plan, written, rd, ctxDone, messageCh,
                   fmsg, wrappedCh, received, stderrChan, erd, stderrLines, stderrSize,
                   exitCode, firstErr, mayCancel, result, calls, panicked,
                   options, prompt, cmd, world, data, parsed, chain>>

\* The cancellation check at the top of the loop body, then the line's
\* classification up to the send.
Check ==
    /\ ~panicked /\ pc["prod"] = "check"
    /\ IF ctxDone
       THEN pc' = [pc EXCEPT !["prod"] = "cl_pipes"]
       ELSE pc' = [pc EXCEPT !["prod"] = IF cur = NoMsg THEN "scan" ELSE "send"]
    /\ UNCHANGED <<mode, t, pipe, proc, plan, written, rd, ctxDone, messageCh,
                   fmsg, wrappedCh, received, stderrChan, erd, stderrLines, stderrSize,
                   exitCode, firstErr, mayCancel, result, calls, panicked,
                   options, prompt, cmd, world, data, parsed, chain>>

\* select { case messageCh <- m: ...; case <-ctx.Done(): return }
ProdSelect(m, next) ==
    \/ /\ HasRoom(messageCh, ChanCap)
       /\ messageCh' = ChanSend(messageCh, m)
       /\ pc' = [pc EXCEPT !["prod"] = next]
    \/ /\ ctxDone
       /\ messageCh' = messageCh
       /\ pc' = [pc EXCEPT !["prod"] = "cl_pipes"]

Send ==
    /\ ~panicked /\ pc["prod"] = "send"
    /\ ProdSelect(cur, "scan")
    /\ UNCHANGED <<mode, t, pipe, proc, plan, written, rd, ctxDone, fmsg,
                   wrappedCh, received, stderrChan, erd, stderrLines, stderrSize,
                   exitCode, firstErr, mayCancel, result, calls, panicked,
                   options, prompt, cmd, world, data, parsed, chain>>

\* scanner.Err() is set: one diagnostic, then handleProcessCompletion.
ScanErr ==
    /\ ~panicked /\ pc["prod"] = "scanerr"
    /\ ProdSelect(Msg("scan_diag", 0), "hpc")
    /\ UNCHANGED <<mode, t, pipe, proc, plan, written, rd, ctxDone, fmsg,
                   wrappedCh, received, stderrChan, erd, stderrLines, stderrSize,
                   exitCode, firstErr, mayCancel, result, calls, panicked,
                   options, prompt, cmd, world, data, parsed, chain>>

\* --------------------------------------------------- handleProcessCompletion
\* fmt.Sprintf("[stderr collection timed out after %v]", stderrTimeout)
TimeoutMarker == "[stderr collection timed out after 30s]"
\* fmt.Sprintf("[stderr truncated after %d bytes]", stderrSize)
TruncationMarker(size) == "[stderr truncated after " \o ToString(size) \o " bytes]"

\* if t.stderr != nil { stderrChan := make(...); go func() {...}() ... }
StartCollect ==
    /\ ~panicked /\ pc["prod"] = "hpc"
    /\ IF t.stderr # NIL
       THEN /\ pc' = [pc EXCEPT !["prod"] = "collect", !["errd"] = "start"]
            /\ stderrChan' = EmptyChan
            /\ erd' = 0
       ELSE /\ pc' = [pc EXCEPT !["prod"] = "pwait"]
            /\ UNCHANGED <<stderrChan, erd>>
    /\ stderrLines' = <<>>
    /\ stderrSize' = 0
    /\ UNCHANGED <<mode, t, pipe, proc, plan, written, rd, ctxDone, messageCh,
                   fmsg, wrappedCh, received, exitCode, firstErr, mayCancel,
                   result, calls, panicked, options, prompt, cmd, world, data,
                   parsed, chain>>

\* The reader goroutine makes its scanner from t.stderr.
ErrStart ==
    /\ ~panicked /\ pc["errd"] = "start"
    /\ IF t.stderr = NIL
       THEN panicked' = TRUE /\ pc' = pc
       ELSE panicked' = panicked /\ pc' = [pc EXCEPT !["errd"] = "read"]
    /\ UNCHANGED <<mode, t, pipe, proc, plan, written, rd, ctxDone, messageCh,
                   fmsg, wrappedCh, received, stderrChan, erd, stderrLines, stderrSize,
                   exitCode, firstErr, mayCancel, result, calls, options,
                   prompt, cmd, world, data, parsed, chain>>

\* The reader's scanner.Scan(): a line, or the end (EOF, or the pipe closed).
ErrScan ==
    /\ ~panicked /\ pc["errd"] = "read"
    /\ \/ /\ pipe["stderr"] = "open" /\ erd < Len(proc.stderr)
          /\ LineSize(proc.stderr[erd + 1]) < MaxScanTokenSize
          /\ erd' = erd + 1
          /\ pc' = [pc EXCEPT !["errd"] = "send"]
          /\ stderrChan' = stderrChan
       \/ /\ \/ pipe["stderr"] # "open"
             \/ erd = Len(proc.stderr) /\ proc.st # "running"
          /\ stderrChan' = ChanClose(stderrChan)
          /\ pc' = [pc EXCEPT !["errd"] = "done"]
          /\ erd' = erd
    /\ UNCHANGED <<mode, t, pipe, proc, plan, written, rd, ctxDone, messageCh,
                   fmsg, wrappedCh, received, stderrLines, stderrSize, exitCode, firstErr,
                   mayCancel, result, calls, panicked, options, prompt, cmd,
                   world, data, parsed, chain>>

\* select { case stderrChan <- scanner.Text(): case <-ctx.Done(): return }
ErrSend ==
    /\ ~panicked /\ pc["errd"] = "send"
    /\ \/ /\ HasRoom(stderrChan, stderrChanCap)
          /\ stderrChan' = ChanSend(stderrChan, proc.stderr[erd])
          /\ pc' = [pc EXCEPT !["errd"] = "read"]
       \/ /\ ctxDone
          /\ stderrChan' = ChanClose(stderrChan)
          /\ pc' = [pc EXCEPT !["errd"] = "done"]
    /\ UNCHANGED <<mode, t, pipe, proc, plan, written, rd, ctxDone, messageCh,
                   fmsg, wrappedCh, received, erd, stderrLines, stderrSize, exitCode,
                   firstErr, mayCancel, result, calls, panicked, options,
                   prompt, cmd, world, data, parsed, chain>>

\* The reader goroutine waits in Read for a subprocess that is still running.
\* stderrTimeout is 30 seconds: the timer is taken to fire only while the
\* reader waits, never ahead of a reader that can run.
ReaderWaiting ==
    /\ pc["errd"] = "read" /\ pipe["stderr"] = "open"
    /\ erd = Len(proc.stderr) /\ proc.st = "running"

\* A collection loop without the size test: every line is kept.
KeepLine(size, l) == FALSE
\* if stderrSize+lineSize > maxStderrSize
OverCap(size, l) == size + LineSize(l) > maxStderrSize

\* The collection loop: a line, the channel closed, the timeout, or ctx.Done();
\* past the cap, the truncation marker and "for range stderrChan {}".
Collect ==
    /\ ~panicked /\ pc["prod"] \in {"collect", "drain"}
    /\ IF pc["prod"] = "drain"
       THEN /\ \/ /\ stderrChan.q # <<>>
                  /\ stderrChan' = ChanPop(stderrChan)
                  /\ pc' = pc
               \/ /\ stderrChan.q = <<>> /\ stderrChan.closed
                  /\ stderrChan' = stderrChan
                  /\ pc' = [pc EXCEPT !["prod"] = "pwait"]
            /\ UNCHANGED <<stderrLines, stderrSize>>
       ELSE \/ /\ stderrChan.q # <<>>
               /\ stderrChan' = ChanPop(stderrChan)
               /\ IF OverCap(stderrSize, ChanHead(stderrChan))
                  THEN /\ stderrLines' = Append(stderrLines, TruncationMarker(stderrSize))
                       /\ stderrSize' = stderrSize
                       /\ pc' = [pc EXCEPT !["prod"] = "drain"]
                  ELSE /\ stderrLines' = Append(stderrLines, ChanHead(stderrChan))
                       /\ stderrSize' = stderrSize + LineSize(ChanHead(stderrChan))
                       /\ pc' = pc
            \/ /\ stderrChan.q = <<>> /\ stderrChan.closed
               /\ pc' = [pc EXCEPT !["prod"] = "pwait"]
               /\ UNCHANGED <<stderrLines, stderrSize, stderrChan>>
            \/ /\ ReaderWaiting
               /\ stderrLines' = Append(stderrLines, TimeoutMarker)
               /\ pc' = [pc EXCEPT !["prod"] = "pwait"]
               /\ UNCHANGED <<stderrSize, stderrChan>>
            \/ /\ ctxDone
               /\ pc' = [pc EXCEPT !["prod"] = "cl_pipes"]
               /\ stderrLines' = <<>>
               /\ stderrSize' = 0
               /\ stderrChan' = stderrChan
    /\ UNCHANGED <<mode, t, pipe, proc, plan, written, rd, ctxDone, messageCh,
                   fmsg, wrappedCh, received, erd, exitCode, firstErr,
                   mayCancel, result, calls, panicked, options, prompt, cmd,
                   world, data, parsed, chain>>

\* waitForProcess: t.cmd.Wait() is called on whatever t.cmd holds now.
CallWait ==
    /\ ~panicked /\ pc["prod"] = "pwait"
    /\ IF t.cmd = NIL
       THEN panicked' = TRUE /\ pc' = pc
       ELSE panicked' = panicked /\ pc' = [pc EXCEPT !["prod"] = "pwaiting"]
    /\ UNCHANGED <<mode, t, pipe, proc, plan, written, rd, ctxDone, messageCh,
                   fmsg, wrappedCh, received, stderrChan, erd, stderrLines, stderrSize,
                   exitCode, firstErr, mayCancel, result, calls, options,
                   prompt, cmd, world, data, parsed, chain>>

ProcessFailedOnSignal(code) == code < 0
\* Whether the exit diagnostic is sent.
ProcessFailed(code) == code # 0

\* Wait returns; exitCode is derived from its error.
WaitReturns ==
    /\ ~panicked /\ pc["prod"] = "pwaiting"
    /\ proc.st \in {"exited", "reaped"}
    /\ proc' = Reaped(proc)
    /\ pipe' = AfterWait(pipe)
    /\ IF ProcessFailed(WaitExitCode(proc))
       THEN /\ pc' = [pc EXCEPT !["prod"] = "exitmsg"]
            /\ exitCode' = WaitExitCode(proc)
            /\ UNCHANGED <<stderrLines, stderrSize>>
       ELSE /\ pc' = [pc EXCEPT !["prod"] = "cl_pipes"]
            /\ exitCode' = 0
            /\ stderrLines' = <<>>
            /\ stderrSize' = 0
    /\ UNCHANGED <<mode, t, plan, written, rd, ctxDone, messageCh, fmsg,
                   wrappedCh, received, stderrChan, erd, firstErr, mayCancel,
                   result, calls, panicked, options, prompt, cmd, world, data,
                   parsed, chain>>

ExitDiag(code, text) == [k |-> "exit_diag", id |-> 0, code |-> code, text |-> text]

\* The "Process failed with exit code ..." message, or ctx.Done().
ExitMsg ==
    /\ ~panicked /\ pc["prod"] = "exitmsg"
    /\ ProdSelect(ExitDiag(exitCode, stderrLines), "cl_pipes")
    /\ exitCode' = 0
    /\ stderrLines' = <<>>
    /\ stderrSize' = 0
    /\ UNCHANGED <<mode, t, pipe, proc, plan, written, rd, ctxDone, fmsg,
                   wrappedCh, received, stderrChan, erd, firstErr, mayCancel,
                   result, calls, panicked, options, prompt, cmd, world, data,
                   parsed, chain>>

\* close(messageCh) deferred after cleanup instead of before it: the channel is
\* closed as the producer leaves its body.
CloseBeforeCleanup ==
    /\ ~panicked /\ pc["prod"] = "cl_pipes"
    /\ messageCh' = ChanClose(messageCh)
    /\ pc' = [pc EXCEPT !["prod"] = "done"]
    /\ UNCHANGED <<mode, t, pipe, proc, plan, written, rd, ctxDone, fmsg,
                   wrappedCh, received, stderrChan, erd, stderrLines, stderrSize,
                   exitCode, firstErr, mayCancel, result, calls, panicked,
                   options, prompt, cmd, world, data, parsed, chain>>

\* defer close(messageCh), after the deferred cleanup has returned.
ProdClose ==
    /\ ~panicked /\ pc["prod"] = "cl_ret"
    /\ messageCh' = ChanClose(messageCh)
    /\ pc' = [pc EXCEPT !["prod"] = "done"]
    /\ UNCHANGED <<mode, t, pipe, proc, plan, written, rd, ctxDone, fmsg,
                   wrappedCh, received, stderrChan, erd, stderrLines, stderrSize,
                   exitCode, firstErr, mayCancel, result, calls, panicked,
                   options, prompt, cmd, world, data, parsed, chain>>

\* ------------------------------------------------------------------ cleanup
ErrClosed == "file already closed"

\* The error of closing pipe n: nil for an open pipe, the pipe's ErrClosed
\* for a second Close of an *os.File.  The stdin pipe of an os/exec that wraps it in a
\* closeOnce returns nil again.
CloseError(pp, n, closeOnce) ==
    IF pp[n] = "open" THEN NIL
    ELSE IF n = "stdin" /\ closeOnce THEN NIL
    ELSE "close " \o n \o ": " \o ErrClosed

\* A firstErr that every failing close overwrites.
LastCloseError(tt, pp, closeOnce) ==
    LET held == SelectSeq(PipeNames, LAMBDA n : tt[n] # NIL)
        errs == SelectSeq(held, LAMBDA n : CloseError(pp, n, closeOnce) # NIL)
    IN IF errs = <<>> THEN NIL ELSE CloseError(pp, errs[Len(errs)], closeOnce)

\* firstErr after the three closes, in the order stdin, stdout, stderr.
FirstCloseError(tt, pp, closeOnce) ==
    LET held == SelectSeq(PipeNames, LAMBDA n : tt[n] # NIL)
        errs == SelectSeq(held, LAMBDA n : CloseError(pp, n, closeOnce) # NIL)
    IN IF errs = <<>> THEN NIL ELSE CloseError(pp, errs[1], closeOnce)

KeepPipes(tt) == tt
\* The transport after the closes: each field that was held is nil.
ReleasePipes(tt) == [tt EXCEPT !.stdin = NIL, !.stdout = NIL, !.stderr = NIL]
ClosePipesOf(tt, pp) ==
    [n \in DOMAIN pp |-> IF tt[n] # NIL THEN "closed" ELSE pp[n]]

\* cleanup, lines 336-357: close the pipes that are held.
ClosePipes(self) ==
    /\ ~panicked /\ pc[self] = "cl_pipes"
    /\ \E closeOnce \in BOOLEAN :
          firstErr' = IF self = "main" THEN FirstCloseError(t, pipe, closeOnce)
                                       ELSE firstErr
    /\ pipe' = ClosePipesOf(t, pipe)
    /\ t' = ReleasePipes(t)
    /\ pc' = [pc EXCEPT ![self] = "cl_sig"]
    /\ UNCHANGED <<mode, proc, plan, written, rd, ctxDone, messageCh, fmsg,
                   wrappedCh, received, stderrChan, erd, stderrLines, stderrSize,
                   exitCode, mayCancel, result, calls, panicked, options,
                   prompt, cmd, world, data, parsed, chain>>

HoldsRunningProcess(tt, p) == tt.cmd # NIL /\ p.st = "running"
\* if t.cmd != nil && t.cmd.Process != nil
HoldsProcess(tt, p) == tt.cmd # NIL /\ p.st # "none"
\* Process.Signal succeeds until the process has been waited for.
SignalDelivered(p) == p.st \in {"running", "exited"}

\* cleanup, lines 359-361 and 376-381: the interrupt; when it cannot be
\* delivered, Kill, Wait (which returns at once) and t.cmd = nil.
Interrupt(self) ==
    /\ ~panicked /\ pc[self] = "cl_sig"
    /\ IF ~HoldsProcess(t, proc)
       THEN /\ pc' = [pc EXCEPT ![self] = "cl_ret"]
            /\ UNCHANGED <<t, proc>>
       ELSE IF SignalDelivered(proc)
       THEN /\ pc' = [pc EXCEPT ![self] = "cl_spawn"]
            /\ t' = t
            /\ \E exits \in BOOLEAN :
                 proc' = IF exits /\ proc.st = "running" THEN Killed(proc) ELSE proc
       ELSE /\ pc' = [pc EXCEPT ![self] = "cl_ret"]
            /\ t' = [t EXCEPT !.cmd = NIL]
            /\ proc' = proc
    /\ UNCHANGED <<mode, pipe, plan, written, rd, ctxDone, messageCh, fmsg,
                   wrappedCh, received, stderrChan, erd, stderrLines, stderrSize,
                   exitCode, firstErr, mayCancel, result, calls, panicked,
                   options, prompt, cmd, world, data, parsed, chain>>

\* go func() { done <- t.cmd.Wait() }(): the goroutine reads t.cmd.
SpawnWait(self) ==
    /\ ~panicked /\ pc[self] = "cl_spawn"
    /\ IF t.cmd = NIL
       THEN panicked' = TRUE /\ pc' = pc
       ELSE panicked' = panicked /\ pc' = [pc EXCEPT ![self] = "cl_await"]
    /\ UNCHANGED <<mode, t, pipe, proc, plan, written, rd, ctxDone, messageCh,
                   fmsg, wrappedCh, received, stderrChan, erd, stderrLines, stderrSize,
                   exitCode, firstErr, mayCancel, result, calls, options,
                   prompt, cmd, world, data, parsed, chain>>

\* A select that gives up at the timeout: no Kill, no second wait.
GiveUpOnTimeout(self) ==
    /\ ~panicked /\ pc[self] = "cl_await"
    /\ IF proc.st \in {"exited", "reaped"}
       THEN proc' = Reaped(proc) /\ pipe' = AfterWait(pipe)
       ELSE UNCHANGED <<proc, pipe>>
    /\ pc' = [pc EXCEPT ![self] = "cl_nil"]
    /\ UNCHANGED <<mode, t, plan, written, rd, ctxDone, messageCh, fmsg,
                   wrappedCh, received, stderrChan, erd, stderrLines, stderrSize,
                   exitCode, firstErr, mayCancel, result, calls, panicked,
                   options, prompt, cmd, world, data, parsed, chain>>

\* select { case <-done: case <-time.After(5s): t.cmd.Process.Kill(); <-done }
AwaitExit(self) ==
    /\ ~panicked /\ pc[self] = "cl_await"
    /\ \/ /\ proc.st \in {"exited", "reaped"}
          /\ proc' = Reaped(proc)
          /\ pipe' = AfterWait(pipe)
          /\ pc' = [pc EXCEPT ![self] = "cl_nil"]
          /\ panicked' = panicked
       \/ /\ proc.st = "running"
          /\ IF t.cmd = NIL
             THEN panicked' = TRUE /\ proc' = proc
             ELSE panicked' = panicked /\ proc' = Killed(proc)
          /\ UNCHANGED <<pipe, pc>>
    /\ UNCHANGED <<mode, t, plan, written, rd, ctxDone, messageCh, fmsg,
                   wrappedCh, received, stderrChan, erd, stderrLines, stderrSize,
                   exitCode, firstErr, mayCancel, result, calls, options,
                   prompt, cmd, world, data, parsed, chain>>

\* A cleanup that returns holding the command it has waited for.
KeepCmd(self) ==
    /\ ~panicked /\ pc[self] = "cl_nil"
    /\ pc' = [pc EXCEPT ![self] = "cl_ret"]
    /\ UNCHANGED <<mode, t, pipe, proc, plan, written, rd, ctxDone, messageCh,
                   fmsg, wrappedCh, received, stderrChan, erd, stderrLines, stderrSize,
                   exitCode, firstErr, mayCancel, result, calls, panicked,
                   options, prompt, cmd, world, data, parsed, chain>>

\* t.cmd = nil
ReleaseCmd(self) ==
    /\ ~panicked /\ pc[self] = "cl_nil"
    /\ t' = [t EXCEPT !.cmd = NIL]
    /\ pc' = [pc EXCEPT ![self] = "cl_ret"]
    /\ UNCHANGED <<mode, pipe, proc, plan, written, rd, ctxDone, messageCh,
                   fmsg, wrappedCh, received, stderrChan, erd, stderrLines, stderrSize,
                   exitCode, firstErr, mayCancel, result, calls, panicked,
                   options, prompt, cmd, world, data, parsed, chain>>

Cleaners == {"main", "prod", "fwd"}

cleanup ==
    \E self \in Cleaners :
        \/ ClosePipes(self)
        \/ Interrupt(self)
        \/ SpawnWait(self)
        \/ AwaitExit(self)
        \/ ReleaseCmd(self)

\* ---------------------------------------------------------------- forwarder
\* for message := range messageCh
FwdRecv ==
    /\ ~panicked /\ pc["fwd"] = "recv"
    /\ IF messageCh.q # <<>>
       THEN /\ fmsg' = ChanHead(messageCh)
            /\ messageCh' = ChanPop(messageCh)
            /\ pc' = [pc EXCEPT !["fwd"] = "send"]
       ELSE /\ messageCh.closed
            /\ pc' = [pc EXCEPT !["fwd"] = "cl_pipes"]
            /\ UNCHANGED <<fmsg, messageCh>>
    /\ UNCHANGED <<mode, t, pipe, proc, plan, written, rd, ctxDone, wrappedCh,
                   received, stderrChan, erd, stderrLines, stderrSize, exitCode, firstErr,
                   mayCancel, result, calls, panicked, options, prompt, cmd,
                   world, data, parsed, chain>>

FwdSelectSendOnly(m) ==
    /\ HasRoom(wrappedCh, ChanCap)
    /\ wrappedCh' = ChanSend(wrappedCh, m)
    /\ pc' = [pc EXCEPT !["fwd"] = "recv"]

\* select { case wrappedCh <- message: case <-ctx.Done(): return }
FwdSelect(m) ==
    \/ /\ HasRoom(wrappedCh, ChanCap)
       /\ wrappedCh' = ChanSend(wrappedCh, m)
       /\ pc' = [pc EXCEPT !["fwd"] = "recv"]
    \/ /\ ctxDone
       /\ wrappedCh' = wrappedCh
       /\ pc' = [pc EXCEPT !["fwd"] = "cl_pipes"]

FwdSend ==
    /\ ~panicked /\ pc["fwd"] = "send"
    /\ FwdSelect(fmsg)
    /\ fmsg' = NoMsg
    /\ UNCHANGED <<mode, t, pipe, proc, plan, written, rd, ctxDone, messageCh,
                   received, stderrChan, erd, stderrLines, stderrSize, exitCode, firstErr,
                   mayCancel, result, calls, panicked, options, prompt, cmd,
                   world, data, parsed, chain>>

\* close(wrappedCh) deferred after Disconnect instead of before it.
CloseBeforeDisconnect ==
    /\ ~panicked /\ pc["fwd"] = "cl_pipes"
    /\ wrappedCh' = ChanClose(wrappedCh)
    /\ pc' = [pc EXCEPT !["fwd"] = "done"]
    /\ UNCHANGED <<mode, t, pipe, proc, plan, written, rd, ctxDone, messageCh,
                   fmsg, received, stderrChan, erd, stderrLines, stderrSize, exitCode,
                   firstErr, mayCancel, result, calls, panicked, options,
                   prompt, cmd, world, data, parsed, chain>>

\* defer close(wrappedCh), after the deferred Disconnect has returned.
FwdClose ==
    /\ ~panicked /\ pc["fwd"] = "cl_ret"
    /\ wrappedCh' = ChanClose(wrappedCh)
    /\ pc' = [pc EXCEPT !["fwd"] = "done"]
    /\ UNCHANGED <<mode, t, pipe, proc, plan, written, rd, ctxDone, messageCh,
                   fmsg, received, stderrChan, erd, stderrLines, stderrSize, exitCode,
                   firstErr, mayCancel, result, calls, panicked, options,
                   prompt, cmd, world, data, parsed, chain>>

\* ------------------------------------------- a caller of the transport's API
ApiConnect ==
    /\ mode = "api" /\ pc["main"] = "start"
    /\ \E env \in ConnectEnvs :
         LET c == Connect(t, env) IN
         /\ t' = c.t
         /\ pipe' = c.pipe
         /\ proc' = IF c.started THEN Running ELSE proc
         /\ cmd' = c.cmd
         /\ result' = [result EXCEPT !.connect = c.err]
    /\ pc' = [pc EXCEPT !["main"] = "api"]
    /\ UNCHANGED <<mode, plan, written, rd, ctxDone, messageCh, fmsg,
                   wrappedCh, received, stderrChan, erd, stderrLines, stderrSize,
                   exitCode, firstErr, mayCancel, calls, panicked, options,
                   prompt, world, data, parsed, chain>>

ProducerAbsent == pc["prod"] \in {"idle", "done"} /\ pc["errd"] \in {"idle", "done"}

\* Disconnect()
ApiDisconnect ==
    /\ ~panicked /\ mode = "api" /\ pc["main"] = "api"
    /\ calls < MaxCalls /\ ProducerAbsent
    /\ calls' = calls + 1
    /\ pc' = [pc EXCEPT !["main"] = "cl_pipes"]
    /\ UNCHANGED <<mode, t, pipe, proc, plan, written, rd, ctxDone, messageCh,
                   fmsg, wrappedCh, received, stderrChan, erd, stderrLines, stderrSize,
                   exitCode, firstErr, mayCancel, result, panicked, options,
                   prompt, cmd, world, data, parsed, chain>>

\* Disconnect returns cleanup's firstErr (also Query's Disconnect at line 57).
DisconnectReturns ==
    /\ ~panicked /\ pc["main"] = "cl_ret"
    /\ result' = [result EXCEPT !.disconnect = firstErr]
    /\ firstErr' = NIL
    /\ pc' = [pc EXCEPT !["main"] = IF mode = "api" THEN "api" ELSE "returned"]
    /\ UNCHANGED <<mode, t, pipe, proc, plan, written, rd, ctxDone, messageCh,
                   fmsg, wrappedCh, received, stderrChan, erd, stderrLines, stderrSize,
                   exitCode, mayCancel, calls, panicked, options, prompt, cmd,
                   world, data, parsed, chain>>

\* ReceiveMessages(ctx)
ApiReceive ==
    /\ ~panicked /\ mode = "api" /\ pc["main"] = "api"
    /\ calls < MaxCalls /\ ProducerAbsent
    /\ calls' = calls + 1
    /\ IF ~Connected(t)
       THEN /\ result' = [result EXCEPT !.stream = "not connected"]
            /\ UNCHANGED <<pc, messageCh>>
       ELSE /\ result' = [result EXCEPT !.stream = "messageCh"]
            /\ messageCh' = EmptyChan
            /\ pc' = [pc EXCEPT !["main"] = "arecv",
                                !["prod"] = IF t.stdout = NIL THEN "scan_nil" ELSE "scan"]
    /\ UNCHANGED <<mode, t, pipe, proc, plan, written, rd, ctxDone, fmsg,
                   wrappedCh, received, stderrChan, erd, stderrLines, stderrSize,
                   exitCode, firstErr, mayCancel, panicked, options, prompt,
                   cmd, world, data, parsed, chain>>

\* The API caller receives from the transport channel until it is closed.
ApiRecv ==
    /\ ~panicked /\ mode = "api" /\ pc["main"] = "arecv"
    /\ IF messageCh.q # <<>>
       THEN /\ received' = Append(received, ChanHead(messageCh))
            /\ messageCh' = ChanPop(messageCh)
            /\ pc' = pc
       ELSE /\ messageCh.closed
            /\ pc' = [pc EXCEPT !["main"] = "api"]
            /\ UNCHANGED <<received, messageCh>>
    /\ UNCHANGED <<mode, t, pipe, proc, plan, written, rd, ctxDone, fmsg,
                   wrappedCh, stderrChan, erd, stderrLines, stderrSize, exitCode,
                   firstErr, mayCancel, result, calls, panicked, options,
                   prompt, cmd, world, data, parsed, chain>>

\* --------------------------------------------------------------------- Next
Next ==
    \/ Query \/ CallerRecv \/ Cancel
    \/ ProcWrite \/ ProcWriteErr \/ ProcExit \/ CtxKill
    \/ Scan \/ ScanNil \/ Check \/ Send \/ ScanErr
    \/ StartCollect \/ ErrStart \/ ErrScan \/ ErrSend \/ Collect
    \/ CallWait \/ WaitReturns \/ ExitMsg \/ ProdClose
    \/ cleanup
    \/ FwdRecv \/ FwdSend \/ FwdClose
    \/ ApiConnect \/ ApiDisconnect \/ DisconnectReturns \/ ApiReceive \/ ApiRecv

Spec == Init /\ [][Next]_vars

\* ------------------------------------- queries of a subprocess with much stderr
\* The number of longest lines that fit under the cap, and what is left.
FullLines == maxStderrSize \div LineSize(BigLine)
BigErr(n) == [i \in 1..n |-> BigLine]
\* The stderr of a subprocess that writes little: one short line, and an
\* empty line before it.
SmallErrs == {<<"boom">>, <<"", "boom">>}
\* Lines that add up to the cap exactly, and lines that exceed it.
AtCap == BigErr(FullLines) \o <<TailLine>>
OverTheCap == BigErr(FullLines + 1)
\* Lines the scanner gives up on while the subprocess is still running: the
\* subprocess gets rid of the first and stays blocked in its write of the second.
TooLong == [len |-> MaxScanTokenSize, body |-> "msg"]
Overlong == [len |-> maxBufferSize + 1, body |-> "msg"]
\* Its stdout: nothing, a message, or the overlong line.
CollectStdouts == {<<>>, <<MsgLine>>, <<Overlong>>}

\* Every stdout with little stderr, cancelled or not; much stderr from a
\* subprocess that fails, in a query that is never cancelled.
CollectInit ==
    /\ mode = "query"
    /\ t = NewSubprocessTransport("/usr/bin/claude", "")
    /\ \/ /\ mayCancel \in BOOLEAN
          /\ \E out \in CollectStdouts, c \in {0, 3}, e \in SmallErrs :
                plan = [stdout |-> out, code |-> c, stderr |-> e]
       \/ /\ mayCancel = FALSE
          /\ plan \in {[stdout |-> <<>>, code |-> 3, stderr |-> AtCap],
                       [stdout |-> <<>>, code |-> 3, stderr |-> OverTheCap],
                       [stdout |-> <<TooLong>>, code |-> 3, stderr |-> OverTheCap],
                       [stdout |-> <<Overlong>>, code |-> 3, stderr |-> OverTheCap]}
    /\ options = NilOptions
    /\ prompt = "hello"
    /\ InitRest /\ NothingElse

CollectNext ==
    \/ Query \/ CallerRecv \/ Cancel
    \/ ProcWrite \/ ProcWriteErr \/ ProcExit \/ CtxKill
    \/ Scan \/ Check \/ Send \/ ScanErr
    \/ StartCollect \/ ErrStart \/ ErrScan \/ ErrSend \/ Collect
    \/ CallWait \/ WaitReturns \/ ExitMsg \/ ProdClose
    \/ cleanup
    \/ FwdRecv \/ FwdSend \/ FwdClose

CollectSpec == CollectInit /\ [][CollectNext]_vars

\* ------------------------------------------------ queries that are never cancelled
\* The same queries without a cancellation, every goroutine scheduled as long
\* as it can run: the producer, the stderr reader, the forwarder, a caller
\* that keeps receiving, and a subprocess that goes on when it can.
\* One line more than the stderr channel holds.
OverTheChannel == BigErr(stderrChanCap + 1)

LiveInit ==
    /\ mode = "query"
    /\ t = NewSubprocessTransport("/usr/bin/claude", "")
    /\ mayCancel = FALSE
    /\ \/ \E out \in CollectStdouts, c \in {0, 3}, e \in SmallErrs :
             plan = [stdout |-> out, code |-> c, stderr |-> e]
       \/ plan = [stdout |-> <<TooLong>>, code |-> 3, stderr |-> OverTheChannel]
    /\ options = NilOptions
    /\ prompt = "hello"
    /\ InitRest /\ NothingElse

\* cleanup in a query that is never cancelled: the process has been waited
\* for by the producer, and the interrupt cannot be delivered.
CleanupAfterWait == \E self \in Cleaners : ClosePipes(self) \/ Interrupt(self)

Producer ==
    \/ Scan \/ Check \/ Send \/ ScanErr \/ StartCollect \/ Collect
    \/ CallWait \/ WaitReturns \/ ExitMsg \/ ProdClose
Reader == ErrStart \/ ErrScan \/ ErrSend
Forwarder == FwdRecv \/ FwdSend \/ FwdClose
Subprocess == ProcWrite \/ ProcWriteErr \/ ProcExit

LiveNext ==
    \/ Query \/ CallerRecv
    \/ ProcWrite \/ ProcWriteErr \/ ProcExit
    \/ Scan \/ Check \/ Send \/ ScanErr
    \/ StartCollect \/ ErrStart \/ ErrScan \/ ErrSend \/ Collect
    \/ CallWait \/ WaitReturns \/ ExitMsg \/ ProdClose
    \/ CleanupAfterWait
    \/ FwdRecv \/ FwdSend \/ FwdClose

LiveSpec ==
    /\ LiveInit /\ [][LiveNext]_vars
    /\ WF_vars(Query) /\ WF_vars(CallerRecv) /\ WF_vars(Subprocess)
    /\ WF_vars(Producer) /\ WF_vars(Reader) /\ WF_vars(Forwarder)
    /\ WF_vars(CleanupAfterWait)

\* ------------------------------------------- buildCommand, called on its own
\* The state of the transport and of a query, which the calls below leave alone.
queryVars == <<t, pipe, proc, plan, written, rd, ctxDone, pc, messageCh, fmsg,
               wrappedCh, received, stderrChan, erd, stderrLines, stderrSize, exitCode,
               firstErr, mayCancel, result, calls, panicked>>

\* No query is made: the transport is new and nothing runs.
Idle ==
    /\ t = NewSubprocessTransport("", "")
    /\ plan = [stdout |-> <<>>, code |-> 0, stderr |-> <<>>]
    /\ mayCancel = FALSE
    /\ InitRest

ToolLists == {<<>>, <<"Read">>, <<"Read", "Edit">>}
BuildOptions ==
    {NilOptions} \cup
    [isNil : {FALSE},
     SystemPrompt : {"", "be brief"},
     AppendSystemPrompt : {"", "cite"},
     AllowedTools : ToolLists,
     MaxTurns : {-1, 0, 5},
     DisallowedTools : {<<>>, <<"WebFetch">>},
     Model : {"", "sonnet"},
     PermissionPromptToolName : {"", "ask"},
     PermissionMode : {"", "plan"},
     ContinueConversation : BOOLEAN,
     Resume : {"", "s1"},
     McpServers : {{}, {"git"}, {"git", "fs"}},
     MaxThinkingTokens : {0, 1000},
     CWD : {"", "/work"}]
Prompts == {"", "hello"}

CommandInit ==
    /\ mode = "build" /\ Idle /\ NothingElse
    /\ options \in BuildOptions
    /\ prompt \in Prompts

\* args := t.buildCommand(options, prompt)
BuildCommand ==
    /\ mode = "build" /\ cmd = NoCmd
    /\ cmd' = CommandContext(t.cliPath, buildCommand(options, prompt))
    /\ UNCHANGED <<mode, options, prompt, queryVars, world, data, parsed,
                   chain>>

CommandNext == BuildCommand
CommandSpec == CommandInit /\ [][CommandNext]_vars

\* ------------------------------------------- several queries of one Client
\* What the operating system and the Go runtime hand out is kept in `world`:
\* the transports, pipes, processes and channels that exist, each known by its
\* place in a sequence (0 is nil), and for each query what its call holds.
NumQueries == 2
QueryIds == 1..NumQueries

NoQuery == [st |-> "idle", ctxDone |-> FALSE, transport |-> 0, proc |-> 0,
            pipes |-> <<>>, chans |-> <<>>]
NewWorld(client) ==
    [client |-> client, transports |-> <<>>, pipes |-> <<>>, procs |-> <<>>,
     chans |-> <<>>, q |-> [i \in QueryIds |-> NoQuery]]

\* The object at place ref becomes val.
Store(seq, ref, val) ==
    [k \in 1..(IF ref > Len(seq) THEN ref ELSE Len(seq)) |->
        IF k = ref THEN val ELSE seq[k]]

OneTransport(w) == 1
\* &SubprocessTransport{...}: a transport no one else holds.
NewTransportRef(w) == Len(w.transports) + 1

\* The pipe a field of the transport refers to, given the pipes cmd.StdinPipe,
\* cmd.StdoutPipe and cmd.StderrPipe made for this call.
FieldRef(tt, f, made) == IF tt[f] = NIL THEN 0 ELSE made[f]

\* Client.Query for query i, when the environment answers env.
QueryOf(w, i, env) ==
    LET ref == NewTransportRef(w)
        c == Connect(NewSubprocessTransport(w.client.cliPath, w.client.cwd), env)
        n == Len(w.pipes)
        made == [stdin |-> n + 1, stdout |-> n + 2, stderr |-> n + 3]
        created == {f \in PipeNames : c.pipe[f] # "none"}
        pid == Len(w.procs) + 1
        m == Len(w.chans)
        tr == [cliPath |-> c.t.cliPath, cwd |-> c.t.cwd,
               cmd |-> IF c.started THEN pid ELSE 0,
               stdin |-> FieldRef(c.t, "stdin", made),
               stdout |-> FieldRef(c.t, "stdout", made),
               stderr |-> FieldRef(c.t, "stderr", made)]
    IN [w EXCEPT
          !.transports = Store(@, ref, tr),
          !.pipes = @ \o [k \in 1..3 |->
                            IF k = 1 THEN c.pipe["stdin"]
                            ELSE IF k = 2 THEN c.pipe["stdout"]
                            ELSE c.pipe["stderr"]],
          !.procs = IF c.started
                    THEN Append(@, [st |-> "running", signals |-> 0]) ELSE @,
          !.chans = IF c.started THEN @ \o <<"open", "open">> ELSE @,
          !.q[i] = [st |-> IF c.started THEN "streaming" ELSE "failed",
                    ctxDone |-> FALSE, transport |-> ref,
                    proc |-> IF c.started THEN pid ELSE 0,
                    pipes |-> <<n + 1, n + 2, n + 3>>,
                    chans |-> IF c.started THEN <<m + 1, m + 2>> ELSE <<>>]]

\* Closing the pipe at place k, if any.
ClosePipeAt(ps, k) == IF k = 0 THEN ps ELSE [ps EXCEPT ![k] = "closed"]

\* cleanup for the transport at ref: the pipes its fields refer to are closed,
\* the process its cmd refers to is signalled and waited for, and the fields
\* are cleared.
CleanupOf(w, ref) ==
    LET tr == w.transports[ref] IN
    [w EXCEPT
       !.pipes = ClosePipeAt(ClosePipeAt(ClosePipeAt(@, tr.stdin), tr.stdout),
                             tr.stderr),
       !.procs = IF tr.cmd = 0 THEN @
                 ELSE [@ EXCEPT ![tr.cmd] =
                         [st |-> "reaped",
                          signals |-> IF @.st = "running"
                                      THEN @.signals + 1 ELSE @.signals]],
       !.transports[ref] = [tr EXCEPT !.cmd = 0, !.stdin = 0, !.stdout = 0,
                                      !.stderr = 0]]

IsolationInit ==
    /\ mode = "queries" /\ Idle
    /\ options = NilOptions /\ prompt = "hello"
    /\ data = NoData /\ parsed = NoResult /\ chain = <<>>
    /\ \E p \in CLIPaths, d \in CWDs : world = NewWorld([cliPath |-> p, cwd |-> d])

\* A caller calls Client.Query.
QueryCall(i) ==
    /\ world.q[i].st = "idle"
    /\ \E env \in ConnectEnvs : world' = QueryOf(world, i, env)

\* The caller of query i cancels its context: exec.CommandContext kills the
\* process started under that context.
CancelCall(i) ==
    /\ world.q[i].st \in {"streaming", "cleaned"} /\ ~world.q[i].ctxDone
    /\ world' = [world EXCEPT
                   !.q[i].ctxDone = TRUE,
                   !.procs[world.q[i].proc] =
                       IF @.st = "running"
                       THEN [st |-> "exited", signals |-> @.signals + 1] ELSE @]

\* The process of query i exits by itself.
ProcessExits(i) ==
    /\ world.q[i].st = "streaming"
    /\ world.procs[world.q[i].proc].st = "running"
    /\ world' = [world EXCEPT !.procs[world.q[i].proc].st = "exited"]

\* The producer of query i leaves its loop: cleanup, then close(messageCh).
ProducerEnds(i) ==
    /\ world.q[i].st = "streaming"
    /\ world.q[i].ctxDone \/ world.procs[world.q[i].proc].st = "exited"
    /\ world' = [CleanupOf(world, world.q[i].transport) EXCEPT
                   !.chans[world.q[i].chans[1]] = "closed",
                   !.q[i].st = "cleaned"]

\* The forwarder of query i ends: transport.Disconnect, then close(wrappedCh).
ForwarderEnds(i) ==
    /\ world.q[i].st = "cleaned"
    /\ world' = [CleanupOf(world, world.q[i].transport) EXCEPT
                   !.chans[world.q[i].chans[2]] = "closed",
                   !.q[i].st = "done"]

\* Whatever a query does, the rest stays as it is.
OneQueryOnly ==
    UNCHANGED <<mode, options, prompt, cmd, data, parsed, chain, queryVars>>

QueryCalls == mode = "queries" /\ OneQueryOnly /\ \E i \in QueryIds : QueryCall(i)
CancelCalls == mode = "queries" /\ OneQueryOnly /\ \E i \in QueryIds : CancelCall(i)
ProcessesExit == mode = "queries" /\ OneQueryOnly /\ \E i \in QueryIds : ProcessExits(i)
ProducersEnd == mode = "queries" /\ OneQueryOnly /\ \E i \in QueryIds : ProducerEnds(i)
ForwardersEnd == mode = "queries" /\ OneQueryOnly /\ \E i \in QueryIds : ForwarderEnds(i)

IsolationNext ==
    QueryCalls \/ CancelCalls \/ ProcessesExit \/ ProducersEnd \/ ForwardersEnd

IsolationSpec == IsolationInit /\ [][IsolationNext]_vars

\* ------------------------------------------------------------ JSON values
\* A value that json.Unmarshal puts into a map[string]any, or that a Go caller
\* puts there: its dynamic type and, under the name of that type, what it
\* holds.  A number holds tenths: 10007 is 1000.7 as a float64, and the Go int
\* 5 holds 50.  An object holds a function from its keys to values.
NoFields == [k \in {} |-> 0]
JNull == [kind |-> "nil", str |-> "", num |-> 0, bool |-> FALSE, arr |-> <<>>,
          obj |-> NoFields]
JString(x) == [JNull EXCEPT !.kind = "string", !.str = x]
JFloat(tenths) == [JNull EXCEPT !.kind = "float64", !.num = tenths]
JInt(n) == [JNull EXCEPT !.kind = "int", !.num = n * 10]
JBool(b) == [JNull EXCEPT !.kind = "bool", !.bool = b]
JArray(items) == [JNull EXCEPT !.kind = "[]any", !.arr = items]
JObject(fields) == [JNull EXCEPT !.kind = "map", !.obj = fields]
\* A key the object does not have, for the inputs below.
Absent == [JNull EXCEPT !.kind = "absent"]
\* The object that has the keys of f which are not Absent.
Object(f) == JObject([k \in {x \in DOMAIN f : f[x] # Absent} |-> f[k]])

\* v, ok := m[key].(T): the key exists and its value has the dynamic type T.
Is(m, key, T) == key \in DOMAIN m /\ m[key].kind = T

\* --------------------------------------------------------------- messages
\* A pointer to a message or to a bool; an interface value holds the dynamic
\* type and the pointer, and is nil only when it holds no dynamic type.
NilPtr == [nil |-> TRUE]
NilMessage == [dyn |-> NIL, ptr |-> NilPtr]
Interface(dyn, ptr) == [dyn |-> dyn, ptr |-> ptr]

NewUserMessage(content) == [nil |-> FALSE, Content |-> content]
NewAssistantMessage(content) == [nil |-> FALSE, Content |-> content]
NewSystemMessage(subtype, d) == [nil |-> FALSE, Subtype |-> subtype, Data |-> d]
NewResultMessage(subtype, durationMs, durationAPIMs, numTurns, isError, sessionID) ==
    [nil |-> FALSE, Subtype |-> subtype, DurationMs |-> durationMs,
     DurationAPIMs |-> durationAPIMs, IsError |-> isError,
     NumTurns |-> numTurns, SessionID |-> sessionID,
     TotalCostUSD |-> JNull, Usage |-> JNull, Result |-> JNull]

NewTextBlock(text) == [block |-> "*TextBlock", Text |-> text]
NewToolUseBlock(id, name, input) ==
    [block |-> "*ToolUseBlock", ID |-> id, Name |-> name, Input |-> input]
NewToolResultBlock(toolUseID, content, isError) ==
    [block |-> "*ToolResultBlock", ToolUseID |-> toolUseID,
     Content |-> content, IsError |-> isError]

\* Message.Type(): the methods read no field, so a nil pointer answers too.
Type(m) ==
    CASE m.dyn = "*UserMessage" -> "user"
      [] m.dyn = "*AssistantMessage" -> "assistant"
      [] m.dyn = "*SystemMessage" -> "system"
      [] m.dyn = "*ResultMessage" -> "result"
BlockType(b) ==
    CASE b.block = "*TextBlock" -> "text"
      [] b.block = "*ToolUseBlock" -> "tool_use"
      [] b.block = "*ToolResultBlock" -> "tool_result"

\* ------------------------------------------------------------ ParseMessage
Placeholder == "[Tool result message]"

\* The first block of the array, from place i on, that is an object of type
\* tool_result whose content is a string; 0 when there is none.
RECURSIVE FirstResult(_, _)
FirstResult(blocks, i) ==
    IF i > Len(blocks) THEN 0
    ELSE IF /\ blocks[i].kind = "map"
            /\ Is(blocks[i].obj, "type", "string")
            /\ blocks[i].obj["type"].str = "tool_result"
            /\ "content" \in DOMAIN blocks[i].obj
         THEN i
         ELSE FirstResult(blocks, i + 1)
RECURSIVE FirstStringResult(_, _)
FirstStringResult(blocks, i) ==
    IF i > Len(blocks) THEN 0
    ELSE IF /\ blocks[i].kind = "map"
            /\ Is(blocks[i].obj, "type", "string")
            /\ blocks[i].obj["type"].str = "tool_result"
            /\ Is(blocks[i].obj, "content", "string")
         THEN i
         ELSE FirstStringResult(blocks, i + 1)

TopLevelFirst(d) ==
    IF Is(d, "content", "string")
    THEN [ptr |-> NewUserMessage(d["content"].str), err |-> NoErr]
    ELSE IF Is(d, "message", "map") /\ Is(d["message"].obj, "content", "string")
    THEN [ptr |-> NewUserMessage(d["message"].obj["content"].str), err |-> NoErr]
    ELSE [ptr |-> NilPtr,
          err |-> NewMessageParseError("Missing required field 'content' in user message", d, NIL)]

parseUserMessage(d) ==
    IF Is(d, "message", "map") /\ Is(d["message"].obj, "content", "string")
    THEN [ptr |-> NewUserMessage(d["message"].obj["content"].str), err |-> NoErr]
    ELSE IF Is(d, "message", "map") /\ Is(d["message"].obj, "content", "[]any")
    THEN LET blocks == d["message"].obj["content"].arr
             i == FirstStringResult(blocks, 1)
         IN [ptr |-> NewUserMessage(IF i = 0 THEN Placeholder
                                    ELSE blocks[i].obj["content"].str),
             err |-> NoErr]
    ELSE IF Is(d, "content", "string")
    THEN [ptr |-> NewUserMessage(d["content"].str), err |-> NoErr]
    ELSE [ptr |-> NilPtr,
          err |-> NewMessageParseError("Missing required field 'content' in user message", d, NIL)]

BlockResult(b, e) == [block |-> b, err |-> e]
NoBlock == [block |-> NIL]

parseContentBlock(b) ==
    IF ~Is(b, "type", "string")
    THEN BlockResult(NoBlock, NewMessageParseError("Content block missing 'type' field", b, NIL))
    ELSE
    CASE b["type"].str = "text" ->
           IF ~Is(b, "text", "string")
           THEN BlockResult(NoBlock, NewMessageParseError("Text block missing 'text' field", b, NIL))
           ELSE BlockResult(NewTextBlock(b["text"].str), NoErr)
      [] b["type"].str = "tool_use" ->
           IF ~Is(b, "id", "string")
           THEN BlockResult(NoBlock, NewMessageParseError("Tool use block missing 'id' field", b, NIL))
           ELSE IF ~Is(b, "name", "string")
           THEN BlockResult(NoBlock, NewMessageParseError("Tool use block missing 'name' field", b, NIL))
           ELSE IF ~Is(b, "input", "map")
           THEN BlockResult(NoBlock, NewMessageParseError("Tool use block missing 'input' field", b, NIL))
           ELSE BlockResult(NewToolUseBlock(b["id"].str, b["name"].str, b["input"].obj),
                            NoErr)
      [] b["type"].str = "tool_result" ->
           IF ~Is(b, "tool_use_id", "string")
           THEN BlockResult(NoBlock,
                            NewMessageParseError("Tool result block missing 'tool_use_id' field", b, NIL))
           ELSE BlockResult(
                  NewToolResultBlock(
                    b["tool_use_id"].str,
                    IF "content" \in DOMAIN b THEN b["content"] ELSE JNull,
                    IF Is(b, "is_error", "bool")
                    THEN [nil |-> FALSE, val |-> b["is_error"].bool]
                    ELSE [nil |-> TRUE, val |-> FALSE]),
                  NoErr)
      [] OTHER ->
           BlockResult(NoBlock,
                       NewMessageParseError("Unknown content block type: " \o b["type"].str, b, NIL))

\* The loop of parseAssistantMessage from element i on, with the blocks made
\* so far: the blocks of the whole array, or the error of the first element
\* that cannot be decoded.
RECURSIVE parseBlocks(_, _, _, _)
parseBlocks(d, contentData, i, contentBlocks) ==
    IF i > Len(contentData) THEN [blocks |-> contentBlocks, err |-> NoErr]
    ELSE IF contentData[i].kind # "map"
    THEN [blocks |-> <<>>, err |-> NewMessageParseError("Invalid content block format", d, NIL)]
    ELSE LET r == parseContentBlock(contentData[i].obj) IN
         IF r.err.kind # NIL THEN [blocks |-> <<>>, err |-> r.err]
         ELSE parseBlocks(d, contentData, i + 1, Append(contentBlocks, r.block))

\* contentData, a nil slice when neither place holds an array.
NilSlice == [isNil |-> TRUE, arr |-> <<>>]
PreferTopLevel(d) ==
    IF Is(d, "content", "[]any")
    THEN [isNil |-> FALSE, arr |-> d["content"].arr]
    ELSE IF Is(d, "message", "map") /\ Is(d["message"].obj, "content", "[]any")
    THEN [isNil |-> FALSE, arr |-> d["message"].obj["content"].arr]
    ELSE NilSlice
contentDataOf(d) ==
    IF Is(d, "message", "map") /\ Is(d["message"].obj, "content", "[]any")
    THEN [isNil |-> FALSE, arr |-> d["message"].obj["content"].arr]
    ELSE IF Is(d, "content", "[]any")
    THEN [isNil |-> FALSE, arr |-> d["content"].arr]
    ELSE NilSlice

parseAssistantMessage(d) ==
    LET contentData == contentDataOf(d) IN
    IF contentData.isNil
    THEN [ptr |-> NilPtr,
          err |-> NewMessageParseError("Missing required field 'content' in assistant message", d, NIL)]
    ELSE LET r == parseBlocks(d, contentData.arr, 1, <<>>) IN
         IF r.err.kind # NIL THEN [ptr |-> NilPtr, err |-> r.err]
         ELSE [ptr |-> NewAssistantMessage(r.blocks), err |-> NoErr]

WithoutDiscriminants(d) == [k \in DOMAIN d \ {"type", "subtype"} |-> d[k]]
\* The map NewSystemMessage keeps: the one it was given.
SameMap(d) == d

parseSystemMessage(d) ==
    IF ~Is(d, "subtype", "string")
    THEN [ptr |-> NilPtr,
          err |-> NewMessageParseError("Missing required field 'subtype' in system message", d, NIL)]
    ELSE [ptr |-> NewSystemMessage(d["subtype"].str, SameMap(d)), err |-> NoErr]

\* int(v) of a float64 within the range of int: the fraction is dropped.
Rounded(tenths) == (tenths + 5) \div 10
Truncated(tenths) ==
    IF tenths >= 0 THEN tenths \div 10 ELSE -((-tenths) \div 10)

getIntField(d, field) ==
    IF field \notin DOMAIN d THEN [val |-> 0, ok |-> FALSE]
    ELSE CASE d[field].kind = "int" -> [val |-> d[field].num \div 10, ok |-> TRUE]
           [] d[field].kind = "float64" -> [val |-> Truncated(d[field].num), ok |-> TRUE]
           [] OTHER -> [val |-> 0, ok |-> FALSE]

Missing(d, field) ==
    NewMessageParseError("Missing required field '" \o field \o "' in result message", d, NIL)

\* The optional field of a result message: attached when it has the type.
Optional(d, field, T) == IF Is(d, field, T) THEN d[field] ELSE JNull

parseResultMessage(d) ==
    IF ~Is(d, "subtype", "string") THEN [ptr |-> NilPtr, err |-> Missing(d, "subtype")]
    ELSE IF ~getIntField(d, "duration_ms").ok
    THEN [ptr |-> NilPtr, err |-> Missing(d, "duration_ms")]
    ELSE IF ~getIntField(d, "duration_api_ms").ok
    THEN [ptr |-> NilPtr, err |-> Missing(d, "duration_api_ms")]
    ELSE IF ~Is(d, "is_error", "bool") THEN [ptr |-> NilPtr, err |-> Missing(d, "is_error")]
    ELSE IF ~getIntField(d, "num_turns").ok
    THEN [ptr |-> NilPtr, err |-> Missing(d, "num_turns")]
    ELSE IF ~Is(d, "session_id", "string")
    THEN [ptr |-> NilPtr, err |-> Missing(d, "session_id")]
    ELSE [ptr |-> [NewResultMessage(d["subtype"].str,
                                    getIntField(d, "duration_ms").val,
                                    getIntField(d, "duration_api_ms").val,
                                    getIntField(d, "num_turns").val,
                                    d["is_error"].bool, d["session_id"].str)
                     EXCEPT !.TotalCostUSD = Optional(d, "total_cost_usd", "float64"),
                            !.Usage = Optional(d, "usage", "map"),
                            !.Result = Optional(d, "result", "string")],
          err |-> NoErr]

\* return parseXMessage(data): the pointer, nil or not, becomes the Message.
Returned(dyn, r) == [msg |-> Interface(dyn, r.ptr), err |-> r.err]

ParseMessage(d) ==
    IF d.kind = "nil"
    THEN [msg |-> NilMessage,
          err |-> NewMessageParseError("Invalid message data type (expected map, got nil)", d.obj, NIL)]
    ELSE IF ~Is(d.obj, "type", "string")
    THEN [msg |-> NilMessage, err |-> NewMessageParseError("Message missing 'type' field", d.obj, NIL)]
    ELSE
    CASE d.obj["type"].str = "user" -> Returned("*UserMessage", parseUserMessage(d.obj))
      [] d.obj["type"].str = "assistant" ->
           Returned("*AssistantMessage", parseAssistantMessage(d.obj))
      [] d.obj["type"].str = "system" -> Returned("*SystemMessage", parseSystemMessage(d.obj))
      [] d.obj["type"].str = "result" -> Returned("*ResultMessage", parseResultMessage(d.obj))
      [] OTHER ->
           [msg |-> NilMessage,
            err |-> NewMessageParseError("Unknown message type: " \o d.obj["type"].str, d.obj, NIL)]

\* --------------------------------------------- ParseMessage, called on its own
MaxBlocks == 2

Text(x) == Object([type |-> JString("text"), text |-> x])
ToolUse(id, name, input) ==
    Object([type |-> JString("tool_use"), id |-> id, name |-> name, input |-> input])
ToolResult(id, content, isError) ==
    Object([type |-> JString("tool_result"), tool_use_id |-> id,
            content |-> content, is_error |-> isError])
SomeInput == Object([command |-> JString("ls")])

\* The elements of a user message's array: tool results with and without a
\* content, whose content is a string or not, and what is no tool result.
UserBlocks ==
    {JString("oops"), Text(JString("hi")),
     Object([type |-> Absent, content |-> JString("r4")]),
     ToolResult(Absent, JString("r3"), Absent)}
    \cup {ToolResult(JString("t1"), c, Absent) :
             c \in {Absent, JNull, JString("r1"), JString("r2"),
                    JArray(<<Text(JString("r5"))>>)}}

\* The elements of an assistant message's array: every block type, whole and
\* with each required field missing or of another type.
AssistantBlocks ==
    {JString("oops"), JNull,
     Object([type |-> Absent, text |-> JString("hi")]),
     Object([type |-> JFloat(10), text |-> JString("hi")]),
     Object([type |-> JString("image"), text |-> JString("hi")]),
     Text(JString("hi")), Text(JString("")), Text(Absent), Text(JFloat(10)),
     ToolUse(JString("t1"), JString("Bash"), SomeInput),
     ToolUse(Absent, JString("Bash"), SomeInput),
     ToolUse(JString("t1"), JFloat(10), SomeInput),
     ToolUse(JString("t1"), JString("Bash"), Absent),
     ToolUse(JString("t1"), JString("Bash"), JString("ls"))}
    \cup {ToolResult(id, c, e) :
             id \in {JString("t1")},
             c \in {Absent, JString("r1"), JArray(<<Text(JString("r5"))>>)},
             e \in {Absent, JBool(TRUE), JString("yes")}}
    \cup {ToolResult(Absent, JString("r1"), Absent),
          ToolResult(JFloat(10), JString("r1"), Absent)}

\* The blocks the longer arrays of an assistant message are made of: one of
\* each type, a text without its text, and what is no object.
CoreBlocks ==
    {JString("oops"), Text(JString("hi")), Text(Absent),
     ToolUse(JString("t1"), JString("Bash"), SomeInput),
     ToolResult(JString("t1"), JString("r1"), JBool(TRUE))}

Arrays(S) == {JArray(a) : a \in SeqsUpTo(S, MaxBlocks)}
\* Every array of one block of S, and the arrays of the blocks of Core.
ArraysAround(S, Core) == {JArray(<<b>>) : b \in S} \cup Arrays(Core)

\* What lies under the key "message": nothing, no object, or an object
\* whose content is one of C.
Nested(C) ==
    {Absent, JString("m")} \cup {Object([content |-> c]) : c \in C}

UserInputs ==
    {Object([type |-> JString("user"), message |-> m, content |-> c]) :
        m \in Nested({Absent, JString("nested"), JFloat(10)} \cup Arrays(UserBlocks)),
        c \in {Absent, JString("top"), JFloat(30), JArray(<<>>)}}

AssistantInputs ==
    {Object([type |-> JString("assistant"), message |-> m, content |-> c]) :
        m \in Nested({Absent, JString("nested")}
                     \cup ArraysAround(AssistantBlocks, CoreBlocks)),
        c \in {Absent, JString("top"), JArray(<<>>),
               JArray(<<Text(JString("top"))>>),
               JArray(<<ToolUse(JString("t2"), JString("Read"), SomeInput),
                        Text(JString("top"))>>),
               JArray(<<Text(Absent)>>)}}

SystemInputs ==
    {Object([type |-> JString("system"), subtype |-> st, session_id |-> id,
             tools |-> tools]) :
        st \in {Absent, JNull, JFloat(10), JString("init"), JString("")},
        id \in {Absent, JString("abc")},
        tools \in {Absent, JArray(<<JString("Bash")>>)}}

ResultInputs ==
    {Object([type |-> JString("result"), subtype |-> st, duration_ms |-> ms,
             duration_api_ms |-> api, is_error |-> ie, num_turns |-> nt,
             session_id |-> id, total_cost_usd |-> cost, usage |-> us,
             result |-> res]) :
        st \in {Absent, JString("success"), JFloat(10)},
        ms \in {Absent, JFloat(10000), JFloat(10007), JFloat(-25), JInt(5),
                JString("1000")},
        api \in {JFloat(8000), JBool(TRUE)},
        ie \in {JBool(TRUE), JString("false")},
        nt \in {Absent, JFloat(29), JNull},
        id \in {JString("abc"), JFloat(10)},
        cost \in {Absent, JFloat(5), JString("0.5")},
        us \in {Absent, Object([input_tokens |-> JFloat(70)]), JString("none")},
        res \in {Absent, JString("done"), JFloat(10)}}

\* No type to dispatch on, or none that is known; and the nil map.
OtherInputs ==
    {JNull}
    \cup {Object([type |-> ty, content |-> c, subtype |-> st]) :
            ty \in {Absent, JNull, JFloat(10), JBool(TRUE), JString(""),
                    JString("other"), JString("User")},
            c \in {Absent, JString("top")},
            st \in {Absent, JString("init")}}

ParseInputs ==
    UserInputs \cup AssistantInputs \cup SystemInputs \cup ResultInputs
    \cup OtherInputs

ParserInit ==
    /\ mode = "parse" /\ Idle
    /\ options = NilOptions /\ prompt = "hello" /\ world = NoWorld
    /\ chain = <<>>
    /\ data \in ParseInputs
    /\ parsed = NoResult

\* message, err := parser.ParseMessage(data)
Parse ==
    /\ mode = "parse" /\ ~parsed.called
    /\ parsed' = [called |-> TRUE, msg |-> ParseMessage(data).msg,
                  err |-> ParseMessage(data).err,
                  marshalled |-> FALSE, json |-> JNull]
    /\ UNCHANGED <<mode, options, prompt, cmd, world, data, queryVars, chain>>

\* json.Marshal of a message, by the json tags of its struct: no struct has
\* a field for the type, a nil slice is null, and a field tagged omitempty is
\* left out when it is nil.  An int is written as the number it is.
Number(n) == JFloat(n * 10)
MarshalBlock(b) ==
    CASE b.block = "*TextBlock" -> Object([text |-> JString(b.Text)])
      [] b.block = "*ToolUseBlock" ->
           Object([id |-> JString(b.ID), name |-> JString(b.Name),
                   input |-> JObject(b.Input)])
      [] b.block = "*ToolResultBlock" ->
           Object([tool_use_id |-> JString(b.ToolUseID),
                   content |-> IF b.Content = JNull THEN Absent ELSE b.Content,
                   is_error |-> IF b.IsError.nil THEN Absent
                                ELSE JBool(b.IsError.val)])
OmitEmpty(v) == IF v = JNull THEN Absent ELSE v
Marshal(m) ==
    CASE m.dyn = "*UserMessage" -> Object([content |-> JString(m.ptr.Content)])
      [] m.dyn = "*AssistantMessage" ->
           Object([content |->
                     IF m.ptr.Content = <<>> THEN JNull
                     ELSE JArray([i \in 1..Len(m.ptr.Content) |->
                                     MarshalBlock(m.ptr.Content[i])])])
      [] m.dyn = "*SystemMessage" ->
           Object([subtype |-> JString(m.ptr.Subtype), data |-> JObject(m.ptr.Data)])
      [] m.dyn = "*ResultMessage" ->
           Object([subtype |-> JString(m.ptr.Subtype),
                   duration_ms |-> Number(m.ptr.DurationMs),
                   duration_api_ms |-> Number(m.ptr.DurationAPIMs),
                   is_error |-> JBool(m.ptr.IsError),
                   num_turns |-> Number(m.ptr.NumTurns),
                   session_id |-> JString(m.ptr.SessionID),
                   total_cost_usd |-> OmitEmpty(m.ptr.TotalCostUSD),
                   usage |-> OmitEmpty(m.ptr.Usage),
                   result |-> OmitEmpty(m.ptr.Result)])

\* The message of a successful parse is serialised again.
Serialize ==
    /\ mode = "parse" /\ parsed.called /\ parsed.err.kind = NIL
    /\ ~parsed.marshalled
    /\ parsed' = [parsed EXCEPT !.marshalled = TRUE, !.json = Marshal(parsed.msg)]
    /\ UNCHANGED <<mode, options, prompt, cmd, world, data, queryVars, chain>>

ParserNext == Parse \/ Serialize

ParserSpec == ParserInit /\ [][ParserNext]_vars

\* --------------------------------------------- the SDK errors, on their own
\* chain holds the errors constructed so far, each with the arguments its
\* constructor was given.  An SDK error is known by its place (its pointer);
\* an error of another package, made by errors.New, by its text.
MaxChain == 3
Name(i) == "e" \o ToString(i)
RootCause == "root cause"
Constructed == {Name(i) : i \in 1..Len(chain)}
At(c) == chain[CHOOSE i \in 1..Len(chain) : Name(i) = c].err
\* What a new error may wrap: nothing, a foreign error, or an SDK error.
Causes == {NIL, RootCause} \cup Constructed

UnwrapNothing(e) == NIL
\* func (e *ClaudeSDKError) Unwrap() error, promoted to every SDK error.
Unwrap(e) == e.cause

\* err.Error(), for an SDK error and for a foreign one.
RECURSIVE Error(_)
Error(c) ==
    IF c \in Constructed
    THEN IF At(c).cause # NIL
         THEN At(c).msg \o ": " \o Error(At(c).cause)
         ELSE At(c).msg
    ELSE c

\* errors.Is(err, target): err or an error it wraps, however deep, is target.
RECURSIVE errorsIs(_, _)
errorsIs(c, target) ==
    \/ c = target
    \/ /\ c \in Constructed
       /\ Unwrap(At(c)) # NIL
       /\ errorsIs(Unwrap(At(c)), target)

ErrorsInit ==
    /\ mode = "errors" /\ Idle
    /\ options = NilOptions /\ prompt = "hello"
    /\ world = NoWorld /\ data = NoData /\ parsed = NoResult
    /\ chain = <<>>

\* One more error is constructed from args.
Construct(e, args) ==
    /\ mode = "errors" /\ Len(chain) < MaxChain
    /\ chain' = Append(chain, [err |-> e, args |-> args])
    /\ UNCHANGED <<mode, options, prompt, cmd, world, data, parsed, queryVars>>

Args(message, cause) ==
    [message |-> message, cause |-> cause, cliPath |-> "", exitCode |-> 0,
     stderr |-> "", rawData |-> ""]

ConstructSDKError ==
    \E c \in Causes :
        Construct(NewClaudeSDKError("sdk error", c), Args("sdk error", c))
ConstructConnectionError ==
    \E c \in Causes :
        Construct(NewCLIConnectionError("connection error", c),
                  Args("connection error", c))
ConstructNotFoundError ==
    \E c \in Causes :
        Construct(NewCLINotFoundError("/usr/bin/claude-code", c),
                  [Args("", c) EXCEPT !.cliPath = "/usr/bin/claude-code"])
ConstructProcessError ==
    \E c \in Causes :
        Construct(NewProcessError("process failed", 1, "command not found", c),
                  [Args("process failed", c)
                      EXCEPT !.exitCode = 1, !.stderr = "command not found"])
ConstructJSONDecodeError ==
    \E c \in Causes :
        Construct(NewCLIJSONDecodeError("failed to decode JSON", "{", c),
                  [Args("failed to decode JSON", c) EXCEPT !.rawData = "{"])
ConstructParseError ==
    \E c \in Causes :
        Construct(NewMessageParseError("unknown type", "{}", c),
                  [Args("unknown type", c) EXCEPT !.rawData = "{}"])

ErrorsNext ==
    \/ ConstructSDKError \/ ConstructConnectionError \/ ConstructNotFoundError
    \/ ConstructProcessError \/ ConstructJSONDecodeError \/ ConstructParseError

ErrorsSpec == ErrorsInit /\ [][ErrorsNext]_vars

\* ------------------------------------------------------------------ claims
\* The messages of the query in delivery order: those the caller has received,
\* then those in the caller-facing channel, the forwarder's hand and the
\* transport channel.
Pipeline ==
    received \o wrappedCh.q \o (IF fmsg = NoMsg THEN <<>> ELSE <<fmsg>>) \o messageCh.q

FromLine(m) == m.id > 0
Streaming == mode = "query" /\ result.stream = "wrappedCh"
\* The producer is past the read loop of ReceiveMessages.
LeftLoop == pc["prod"] \notin {"idle", "scan", "scan_nil", "check", "send"}
\* The caller has drained the stream and seen it closed.
StreamEnded == Streaming /\ pc["main"] = "closed"
Count(sq, P(_)) == Cardinality({i \in 1..Len(sq) : P(sq[i])})

\* C1: the messages that come from stdout lines travel in the order of their
\* lines, each the message of its own line, none twice, through the transport
\* channel, the forwarder and the caller-facing channel up to the caller.
C1_OrderPreserved ==
    Streaming =>
        /\ \A i, j \in 1..Len(Pipeline) :
              (i < j /\ FromLine(Pipeline[i]) /\ FromLine(Pipeline[j]))
                  => Pipeline[i].id < Pipeline[j].id
        /\ \A i \in 1..Len(Pipeline) :
              FromLine(Pipeline[i])
                  => /\ Pipeline[i].id <= rd
                     /\ Pipeline[i] = Classify(plan.stdout[Pipeline[i].id], Pipeline[i].id)

C1_Witness ==
    /\ Streaming /\ Len(received) >= 3
    /\ \A i \in 1..3 : received[i].id = i

\* C2: once the context is cancelled while a query streams, the query does
\* not come to rest before the caller-facing stream is closed and the
\* subprocess has been waited for.
C2_CancelClosesStream ==
    (Streaming /\ ctxDone) =>
        (ENABLED Next \/ (wrappedCh.closed /\ proc.st = "reaped"))

\* Messages of kind k that line i produced, anywhere between the producer and
\* the caller.
Produced(k, i) == {n \in 1..Len(Pipeline) : Pipeline[n].k = k /\ Pipeline[n].id = i}
Oversized(l) == l.len > maxBufferSize
\* A JSON object that ParseMessage accepts.
WellFormed(l) == l.body = "msg"
LaterDelivered(i) ==
    \A j \in (i + 1)..Len(plan.stdout) :
        WellFormed(plan.stdout[j]) => Produced("msg", j) # {}

\* C3: a line longer than maxBufferSize that well-formed lines follow yields
\* exactly one size diagnostic and does not end the reading of stdout: when an
\* uncancelled producer has left the read loop, every line has been read, the
\* oversized line has its one diagnostic and every later well-formed line its
\* message.
C3_OversizedLineSkipped ==
    (Streaming /\ ~ctxDone /\ LeftLoop) =>
        \A i \in 1..(Len(plan.stdout) - 1) :
            (/\ Oversized(plan.stdout[i])
             /\ \A j \in (i + 1)..Len(plan.stdout) : plan.stdout[j] = MsgLine)
                => /\ rd = Len(plan.stdout)
                   /\ Cardinality(Produced("size_diag", i)) = 1
                   /\ LaterDelivered(i)

Last(sq) == sq[Len(sq)]
ExitDiags == {n \in 1..Len(received) : received[n].k = "exit_diag"}
\* The stderr text of an exit diagnostic: everything the subprocess wrote to
\* stderr, or the part collected before the collection timed out.
CollectedStderr(text) ==
    \/ text = proc.stderr
    \/ \E n \in 0..Len(proc.stderr) :
          text = SubSeq(proc.stderr, 1, n) \o <<TimeoutMarker>>

\* C4: when the stream of an uncancelled query has closed, a subprocess that
\* exited with a code other than 0 has produced exactly one exit diagnostic,
\* the last message received, carrying that code and the collected stderr; a
\* subprocess that exited with 0 has produced none.
C4_ExitDiagnostic ==
    (StreamEnded /\ ~ctxDone) =>
        IF proc.code # 0
        THEN /\ ExitDiags = {Len(received)}
             /\ Last(received).code = proc.code
             /\ CollectedStderr(Last(received).text)
        ELSE ExitDiags = {}

C4_Witness ==
    /\ StreamEnded /\ ~ctxDone
    /\ proc.code = 3 /\ rd = Len(plan.stdout) /\ rd >= 1
    /\ Len(received) >= 2
    /\ Last(received) = ExitDiag(3, <<"boom">>)

\* C5: a line ParseMessage rejects yields exactly one parse diagnostic and
\* does not end the stream: when an uncancelled producer has left the read
\* loop, the line has its one diagnostic and every later well-formed line has
\* its message.
C5_ParseErrorSkipped ==
    (Streaming /\ ~ctxDone /\ LeftLoop) =>
        \A i \in 1..rd :
            plan.stdout[i].body = "unparsable"
                => /\ Cardinality(Produced("parse_diag", i)) = 1
                   /\ LaterDelivered(i)

\* A line that is a JSON object whose type is not control_response.
Deliverable(l) == l.body \in {"unparsable", "msg"}

\* C6: in a query that is not cancelled and whose subprocess exits with 0,
\* the caller has received, when the stream closes, as many messages as stdout
\* has lines that are JSON objects of a type other than control_response.
C6_DeliveredCount ==
    (StreamEnded /\ ~ctxDone /\ proc.code = 0) =>
        Len(received) = Count(plan.stdout, Deliverable)

\* C7, as the specification states it: once the context is cancelled, no step
\* adds a message to the caller-facing channel.
C7_NoSendAfterCancel ==
    [][ctxDone => Len(wrappedCh'.q) <= Len(wrappedCh.q)]_vars

\* C7: once the context is cancelled, the forwarder holding a message never
\* waits for room on the caller-facing channel (its send step can always be
\* taken), and a message appears on that channel only through the send case
\* of the forwarder's select, taken while the channel has room, the message
\* being the one in the forwarder's hand.
C7_ForwarderNeverWaits ==
    /\ [](  (Streaming /\ ctxDone /\ ~panicked /\ pc["fwd"] = "send")
              => ENABLED FwdSend)
    /\ [][(ctxDone /\ Len(wrappedCh'.q) > Len(wrappedCh.q))
              => /\ pc["fwd"] = "send" /\ HasRoom(wrappedCh, ChanCap)
                 /\ wrappedCh'.q = Append(wrappedCh.q, fmsg)
                 /\ pc'["fwd"] = "recv"]_vars

\* The forwarder has returned on ctx.Done() from a full caller-facing channel,
\* leaving messages behind in the transport channel.
C7_Witness ==
    /\ Streaming /\ ctxDone
    /\ ~HasRoom(wrappedCh, ChanCap)
    /\ pc["fwd"] = "cl_pipes" /\ ~messageCh.closed /\ messageCh.q # <<>>

AllReleased ==
    /\ t.cmd = NIL /\ t.stdin = NIL /\ t.stdout = NIL /\ t.stderr = NIL
    /\ \A n \in DOMAIN pipe : pipe[n] = "closed"

\* The first call after a successful Connect was Disconnect, and it returned.
DisconnectedAtOnce ==
    /\ mode = "api" /\ result.connect.kind = NIL
    /\ calls = 1 /\ result.stream = "none" /\ pc["main"] = "api"

\* C8: when Disconnect, called right after a successful Connect, has
\* returned, the subprocess has exited and been waited for, the three pipes
\* are closed and the transport holds neither pipe nor process handle.
C8_ConnectThenDisconnect ==
    DisconnectedAtOnce => (proc.st = "reaped" /\ AllReleased)

C8_Witness ==
    /\ DisconnectedAtOnce /\ result.disconnect # "none"
    /\ proc.st = "reaped" /\ AllReleased

\* A cleanup has run to its end on this transport and no goroutine is left:
\* a Disconnect has returned, or the producer's deferred cleanup has.
CleanupCompleted ==
    /\ mode = "api" /\ ProducerAbsent
    /\ result.disconnect # "none" \/ pc["prod"] = "done"
InDisconnect == pc["main"] \in {"cl_pipes", "cl_sig", "cl_spawn", "cl_await", "cl_nil", "cl_ret"}

\* C9: every step of a Disconnect made after a cleanup has completed leaves
\* the transport, the pipes and the subprocess as they are, takes neither the
\* signal-and-wait path nor the t.cmd = nil assignment, and the Disconnect
\* returns nil.
C9_DisconnectIdempotent ==
    [][(CleanupCompleted /\ InDisconnect)
          => /\ t' = t /\ pipe' = pipe /\ proc' = proc
             /\ pc["main"] \in {"cl_pipes", "cl_sig", "cl_ret"}
             /\ pc["main"] = "cl_pipes" => pc'["main"] \in {"cl_pipes", "cl_sig"}
             /\ pc["main"] = "cl_sig" => pc'["main"] \in {"cl_sig", "cl_ret"}
             /\ pc["main"] = "cl_ret" =>
                   \/ pc'["main"] = "cl_ret" /\ result' = result
                   \/ pc'["main"] = "api" /\ result'.disconnect = NIL]_vars

\* A second Disconnect, after a successful Connect and a first Disconnect, is
\* about to return.
C9_Witness ==
    /\ mode = "api" /\ result.connect.kind = NIL
    /\ result.disconnect # "none" /\ result.stream = "none"
    /\ calls = 2 /\ pc["main"] = "cl_ret"

\* The setup fails for transport tt under the environment's answers env.
SetupFails(tt, env) ==
    \/ tt.cliPath = "" /\ ~env.find
    \/ tt.cwd # "" /\ tt.cwd \notin ExistingDirs
    \/ env.pipeFail # "none"
    \/ ~env.start
ConnectFailed == result.connect.kind \notin {"none", NIL}
NoGoroutine == pc["prod"] = "idle" /\ pc["fwd"] = "idle" /\ pc["errd"] = "idle"

\* C10: before Connect, every failing setup makes Connect return an error and
\* start no process, the error of a missing working directory being a
\* CLIConnectionError with no pipe made; after a failed Connect no process
\* runs, Client.Query has returned a nil stream with no goroutine started,
\* and a working-directory failure has left the transport without pipes.
C10_SetupFailures ==
    /\ pc["main"] = "start" =>
          \A env \in ConnectEnvs :
              LET c == Connect(t, env) IN
              /\ SetupFails(t, env) <=> c.err.kind # NIL
              /\ c.err.kind # NIL => ~c.started
              /\ (c.t.cwd # "" /\ c.t.cwd \notin ExistingDirs /\ c.t.cliPath # "")
                    => /\ c.err.kind = "CLIConnectionError"
                       /\ c.err.msg = "Working directory does not exist"
                       /\ c.pipe = NoPipes
    /\ ConnectFailed =>
          /\ proc.st = "none"
          /\ mode = "query" =>
                (result.stream = NIL /\ pc["main"] = "returned" /\ NoGoroutine)
          /\ (mode = "api" /\ calls = 0) => NoGoroutine
          /\ result.connect.msg = "Working directory does not exist" =>
                /\ result.connect.kind = "CLIConnectionError"
                /\ pipe = NoPipes
                /\ t.stdin = NIL /\ t.stdout = NIL /\ t.stderr = NIL

C10_Witness ==
    /\ mode = "query" /\ pc["main"] = "returned"
    /\ result.connect =
          NewCLIConnectionError("Working directory does not exist", StatError)
    /\ result.stream = NIL /\ NoGoroutine /\ pipe = NoPipes

\* The setup gets as far as cmd.Start, which fails.
StartFails(tt, env) ==
    /\ tt.cliPath # "" \/ env.find
    /\ ~(tt.cwd # "" /\ tt.cwd \notin ExistingDirs)
    /\ env.pipeFail = "none" /\ ~env.start
ResolvedPath(tt) == IF tt.cliPath = "" THEN FoundCLI ELSE tt.cliPath
\* The resolved path ends in the element "claude".
EndsInClaude(p) == p \in {"/usr/bin/claude", "/usr/local/bin/claude"}

\* C11: when cmd.Start fails, Connect returns a CLINotFoundError carrying the
\* resolved path exactly when that path's last element is "claude", and in
\* every other case a ProcessError with exit code 0 and empty stderr; both
\* wrap the start error; and the error Connect returned is of that form.
C11_StartFailureError ==
    /\ pc["main"] = "start" =>
          \A env \in ConnectEnvs :
              StartFails(t, env) =>
                  LET e == Connect(t, env).err IN
                  /\ e.cause = StartError
                  /\ IF EndsInClaude(ResolvedPath(t))
                     THEN e.kind = "CLINotFoundError" /\ e.cliPath = ResolvedPath(t)
                     ELSE /\ e.kind = "ProcessError"
                          /\ e.exitCode = 0 /\ e.stderr = ""
    /\ result.connect.cause = StartError =>
          /\ result.connect.kind = "CLINotFoundError"
                <=> EndsInClaude(t.cliPath)
          /\ result.connect.kind = "CLINotFoundError"
                => result.connect.cliPath = t.cliPath
          /\ result.connect.kind # "CLINotFoundError"
                => result.connect = NewProcessError("failed to start CLI process",
                                                    0, "", StartError)

\* Start failed for a path that has a directory named claude but another
\* last element: Connect returned the ProcessError.
C11_Witness ==
    /\ t.cliPath = "/opt/claude/cli.js"
    /\ result.connect = NewProcessError("failed to start CLI process", 0, "", StartError)

\* The optional flags in the order the specification gives them.
FlagOrder ==
    <<"--system-prompt", "--append-system-prompt", "--allowedTools",
      "--max-turns", "--disallowedTools", "--model", "--permission-prompt-tool",
      "--permission-mode", "--continue", "--resume", "--mcp-config">>
IsFlag(a) == \E i \in 1..Len(FlagOrder) : FlagOrder[i] = a
\* The arguments between the fixed head and the fixed tail.
Middle == SubSeq(cmd.args, 4, Len(cmd.args) - 2)
FlagsEmitted == SelectSeq(Middle, IsFlag)
Built == mode = "build" /\ cmd # NoCmd

\* The field of flag f is set: non-empty or non-zero; a max-turns field counts
\* as set when maxTurnsSet says so.
FieldSet(f, maxTurnsSet) ==
    /\ ~options.isNil
    /\ CASE f = "--system-prompt" -> options.SystemPrompt # ""
         [] f = "--append-system-prompt" -> options.AppendSystemPrompt # ""
         [] f = "--allowedTools" -> options.AllowedTools # <<>>
         [] f = "--max-turns" -> maxTurnsSet
         [] f = "--disallowedTools" -> options.DisallowedTools # <<>>
         [] f = "--model" -> options.Model # ""
         [] f = "--permission-prompt-tool" -> options.PermissionPromptToolName # ""
         [] f = "--permission-mode" -> options.PermissionMode # ""
         [] f = "--continue" -> options.ContinueConversation
         [] f = "--resume" -> options.Resume # ""
         [] f = "--mcp-config" -> options.McpServers # {}

\* The argument list has the fixed head and tail, and between them exactly the
\* flags whose field is set, in the fixed order.
CommandShape(maxTurnsSet) ==
    /\ Len(cmd.args) >= 5
    /\ SubSeq(cmd.args, 1, 3) = <<"--output-format", "stream-json", "--verbose">>
    /\ SubSeq(cmd.args, Len(cmd.args) - 1, Len(cmd.args)) = <<"--print", prompt>>
    /\ FlagsEmitted = SelectSeq(FlagOrder, LAMBDA f : FieldSet(f, maxTurnsSet))
    /\ cmd.args = buildCommand(options, prompt)

\* C13, as the specification states it: the max-turns flag is present if and
\* only if MaxTurns is not zero.
C13_FlagsWhenNonZero == Built => CommandShape(options.MaxTurns # 0)

\* C13: buildCommand gives the same list for the same (options, prompt); the
\* list starts with --output-format stream-json --verbose and ends with
\* --print <prompt>; between them are exactly the flags whose field is set,
\* in the fixed order, the max-turns flag being present if and only if
\* MaxTurns is greater than zero; a flag that takes a value is followed by it.
C13_CommandShape ==
    Built =>
        /\ CommandShape(options.MaxTurns > 0)
        /\ \A i \in 1..Len(Middle) :
              /\ Middle[i] = "--max-turns" => Middle[i + 1] = ToString(options.MaxTurns)
              /\ Middle[i] = "--model" => Middle[i + 1] = options.Model
              /\ Middle[i] = "--allowedTools" =>
                    Middle[i + 1] = Join(options.AllowedTools, ",")
              /\ Middle[i] = "--resume" => Middle[i + 1] = options.Resume

\* Every optional flag is set; the list holds the eleven flags in order.
C13_Witness ==
    /\ Built /\ FlagsEmitted = FlagOrder
    /\ options.AllowedTools = <<"Read", "Edit">>
    /\ Len(cmd.args) = 26

\* C14: after Client.Query was called with a non-empty QueryOptions.CWD, a
\* subprocess that was started runs in that directory, and the call has
\* failed when the directory does not exist.
C14_QueryCwdApplied ==
    (mode = "query" /\ pc["main"] # "start" /\ ~options.isNil /\ options.CWD # "")
        => IF options.CWD \in ExistingDirs
           THEN proc.st # "none" => cmd.dir = options.CWD
           ELSE ConnectFailed

\* What the call of query i holds, and what its transport refers to.
Called(i) == world.q[i].st # "idle"
PipesOf(i) == {world.q[i].pipes[k] : k \in 1..Len(world.q[i].pipes)}
ChansOf(i) == {world.q[i].chans[k] : k \in 1..Len(world.q[i].chans)}
TransportOf(i) == world.transports[world.q[i].transport]
RefersTo(i) ==
    [pipes |-> {TransportOf(i).stdin, TransportOf(i).stdout,
                TransportOf(i).stderr} \ {0},
     procs |-> {TransportOf(i).cmd} \ {0}]

NothingShared ==
    \A i, j \in QueryIds :
        (i # j /\ Called(i) /\ Called(j)) =>
            /\ world.q[i].transport # world.q[j].transport
            /\ PipesOf(i) \cap PipesOf(j) = {}
            /\ ChansOf(i) \cap ChansOf(j) = {}
            /\ world.q[i].proc = 0 \/ world.q[i].proc # world.q[j].proc
            /\ RefersTo(i).pipes \subseteq PipesOf(i)
            /\ RefersTo(i).procs \subseteq {world.q[i].proc}

\* A step in which query j does nothing leaves its pipes and channels as they
\* are and sends its process no signal; the process may only exit by itself.
OthersUntouched ==
    \A j \in QueryIds :
        (mode = "queries" /\ Called(j) /\ world'.q[j] = world.q[j]) =>
            /\ \A k \in PipesOf(j) : world'.pipes[k] = world.pipes[k]
            /\ \A k \in ChansOf(j) : world'.chans[k] = world.chans[k]
            /\ world.q[j].proc # 0 =>
                 LET before == world.procs[world.q[j].proc]
                     after == world'.procs[world.q[j].proc]
                 IN /\ after.signals = before.signals
                    /\ after.st # before.st =>
                         before.st = "running" /\ after.st = "exited"

\* C12: two queries of one Client hold different transports, processes, pipes
\* and channels, and a step of one query (cancellation and teardown included)
\* closes no pipe and no channel of the other and does not signal its process.
C12_QueriesIsolated == []NothingShared /\ [][OthersUntouched]_vars

\* One query was cancelled and torn down while the other still streams.
C12_Witness ==
    /\ mode = "queries"
    /\ \E i, j \in QueryIds :
         /\ world.q[i].st = "done" /\ world.q[i].ctxDone
         /\ world.q[j].st = "streaming"
         /\ world.procs[world.q[j].proc].st = "running"
         /\ world.pipes[world.q[j].pipes[2]] = "open"

\* What ParseMessage was given and what it returned.
MessageTypes == {"user", "assistant", "system", "result"}
KnownType ==
    /\ data.kind = "map" /\ Is(data.obj, "type", "string")
    /\ data.obj["type"].str \in MessageTypes
Failed == parsed.called /\ parsed.err.kind # NIL
Succeeded == parsed.called /\ parsed.err.kind = NIL
TypeOfInput(ty) == KnownType /\ data.obj["type"].str = ty
Content == parsed.msg.ptr.Content

\* C15: ParseMessage fails for an input whose type is absent, no string or
\* none of user, assistant, system and result; it never returns a non-nil
\* message together with an error; the message of a success reports the type
\* of the input, and each of its content blocks one of the block types.
C15_DispatchOnType ==
    parsed.called =>
        /\ ~KnownType => Failed
        /\ ~(parsed.msg # NilMessage /\ parsed.err.kind # NIL)
        /\ Succeeded =>
             /\ parsed.msg # NilMessage /\ ~parsed.msg.ptr.nil
             /\ Type(parsed.msg) = data.obj["type"].str
             /\ TypeOfInput("assistant") =>
                  \A i \in 1..Len(Content) :
                      BlockType(Content[i]) \in {"text", "tool_use", "tool_result"}

\* The shapes of a user object.
NestedIs(T) ==
    /\ Is(data.obj, "message", "map")
    /\ Is(data.obj["message"].obj, "content", T)
NestedContent == data.obj["message"].obj["content"]
TopLevelString == Is(data.obj, "content", "string")
\* The strings that are the content of an object of the array.
StringContents(blocks) ==
    {blocks[i].obj["content"].str :
        i \in {k \in 1..Len(blocks) :
                 blocks[k].kind = "map" /\ Is(blocks[k].obj, "content", "string")}}

\* C16: the content of a user message is the string at message.content; or
\* else, message.content being an array, what is extracted from the array or
\* the placeholder, whatever the top-level content; or else the top-level
\* content string; and parsing fails exactly when none of the three is there.
C16_UserPrecedence ==
    (parsed.called /\ TypeOfInput("user")) =>
        /\ Failed <=> ~(NestedIs("string") \/ NestedIs("[]any") \/ TopLevelString)
        /\ Succeeded =>
             IF NestedIs("string") THEN Content = NestedContent.str
             ELSE IF NestedIs("[]any")
             THEN Content \in {Placeholder} \cup StringContents(NestedContent.arr)
             ELSE Content = data.obj["content"].str

\* An array at message.content was used although a top-level string is there.
C16_Witness ==
    /\ Succeeded /\ TypeOfInput("user")
    /\ NestedIs("[]any") /\ TopLevelString
    /\ Content = "r1"

\* The places of the array that hold a tool_result block.
ToolResults(blocks) ==
    {k \in 1..Len(blocks) :
        /\ blocks[k].kind = "map" /\ Is(blocks[k].obj, "type", "string")
        /\ blocks[k].obj["type"].str = "tool_result"}
WithContent(blocks) == {k \in ToolResults(blocks) : "content" \in DOMAIN blocks[k].obj}
WithStringContent(blocks) ==
    {k \in ToolResults(blocks) : Is(blocks[k].obj, "content", "string")}
First(S) == CHOOSE k \in S : \A j \in S : k <= j
ArrayParsed ==
    /\ Succeeded /\ TypeOfInput("user")
    /\ ~NestedIs("string") /\ NestedIs("[]any")

TopLevelArray == Is(data.obj, "content", "[]any")
HasArray == NestedIs("[]any") \/ TopLevelArray
ChosenArray ==
    IF NestedIs("[]any") THEN NestedContent.arr ELSE data.obj["content"].arr
\* An element that can be decoded: an object of a known block type that has
\* the fields its type requires.
Decodable(e) ==
    /\ e.kind = "map" /\ Is(e.obj, "type", "string")
    /\ \/ e.obj["type"].str = "text" /\ Is(e.obj, "text", "string")
       \/ /\ e.obj["type"].str = "tool_use"
          /\ Is(e.obj, "id", "string") /\ Is(e.obj, "name", "string")
          /\ Is(e.obj, "input", "map")
       \/ e.obj["type"].str = "tool_result" /\ Is(e.obj, "tool_use_id", "string")
\* The block b is the decoding of the element e.
Decodes(b, e) ==
    /\ BlockType(b) = e.obj["type"].str
    /\ BlockType(b) = "text" => b.Text = e.obj["text"].str
    /\ BlockType(b) = "tool_use" =>
         /\ b.ID = e.obj["id"].str /\ b.Name = e.obj["name"].str
         /\ b.Input = e.obj["input"].obj
    /\ BlockType(b) = "tool_result" =>
         /\ b.ToolUseID = e.obj["tool_use_id"].str
         /\ b.Content = IF "content" \in DOMAIN e.obj THEN e.obj["content"] ELSE JNull
         /\ b.IsError.nil <=> ~Is(e.obj, "is_error", "bool")
         /\ ~b.IsError.nil => b.IsError.val = e.obj["is_error"].bool

\* C18: an assistant object is read from the array at message.content, or
\* else from the array at the top-level content; the blocks of the message are
\* the decodings of the elements, one for one and in order; and parsing fails,
\* with no message, exactly when there is no array or an element of it cannot
\* be decoded.
C18_AssistantBlocks ==
    (parsed.called /\ TypeOfInput("assistant")) =>
        /\ Failed <=>
             \/ ~HasArray
             \/ \E i \in 1..Len(ChosenArray) : ~Decodable(ChosenArray[i])
        /\ Failed => parsed.msg.ptr.nil
        /\ Succeeded =>
             /\ Len(Content) = Len(ChosenArray)
             /\ \A i \in 1..Len(ChosenArray) : Decodes(Content[i], ChosenArray[i])

\* Two blocks were decoded from the nested array although a top-level array
\* is there as well.
C18_Witness ==
    /\ Succeeded /\ TypeOfInput("assistant")
    /\ NestedIs("[]any") /\ TopLevelArray
    /\ ChosenArray # data.obj["content"].arr
    /\ Len(Content) = 2
    /\ BlockType(Content[1]) = "tool_use" /\ BlockType(Content[2]) = "tool_result"
    /\ ~Content[2].IsError.nil

\* C19: a system object parses exactly when its subtype is a string; the
\* message has that subtype, and its Data is the whole input object, the keys
\* type and subtype included.
C19_SystemKeepsInput ==
    (parsed.called /\ TypeOfInput("system")) =>
        /\ Succeeded <=> Is(data.obj, "subtype", "string")
        /\ Succeeded =>
             /\ parsed.msg.ptr.Subtype = data.obj["subtype"].str
             /\ DOMAIN parsed.msg.ptr.Data = DOMAIN data.obj
             /\ \A k \in DOMAIN data.obj : parsed.msg.ptr.Data[k] = data.obj[k]

\* A system message that keeps type, subtype and two more keys.
C19_Witness ==
    /\ Succeeded /\ TypeOfInput("system")
    /\ DOMAIN parsed.msg.ptr.Data = {"type", "subtype", "session_id", "tools"}
    /\ parsed.msg.ptr.Subtype = "init"

\* The fields of a result object.
Numeric(field) ==
    /\ field \in DOMAIN data.obj
    /\ data.obj[field].kind \in {"float64", "int"}
\* n is the number of field without its fraction.
WholePartOf(n, field) ==
    LET tenths == data.obj[field].num IN
    IF tenths >= 0
    THEN n * 10 <= tenths /\ tenths < n * 10 + 10
    ELSE n * 10 >= tenths /\ tenths > n * 10 - 10
\* The optional field was attached as it is in the input, or left out.
Attached(got, field, T) ==
    IF Is(data.obj, field, T) THEN got = data.obj[field] ELSE got = JNull

\* C20: a result object parses exactly when subtype and session_id are
\* strings, is_error is a boolean and duration_ms, duration_api_ms and
\* num_turns are numbers; the message has those values, a number without its
\* fraction; total_cost_usd, usage and result are attached when they are a
\* number, an object and a string, and are left out otherwise.
C20_ResultFields ==
    (parsed.called /\ TypeOfInput("result")) =>
        /\ Succeeded <=>
             /\ Is(data.obj, "subtype", "string") /\ Is(data.obj, "session_id", "string")
             /\ Is(data.obj, "is_error", "bool")
             /\ Numeric("duration_ms") /\ Numeric("duration_api_ms")
             /\ Numeric("num_turns")
        /\ Succeeded =>
             LET m == parsed.msg.ptr IN
             /\ m.Subtype = data.obj["subtype"].str
             /\ m.SessionID = data.obj["session_id"].str
             /\ m.IsError = data.obj["is_error"].bool
             /\ WholePartOf(m.DurationMs, "duration_ms")
             /\ WholePartOf(m.DurationAPIMs, "duration_api_ms")
             /\ WholePartOf(m.NumTurns, "num_turns")
             /\ Attached(m.TotalCostUSD, "total_cost_usd", "float64")
             /\ Attached(m.Usage, "usage", "map")
             /\ Attached(m.Result, "result", "string")

\* 1000.7 milliseconds became 1000; the cost, a string, was left out and the
\* usage was attached.
C20_Witness ==
    /\ Succeeded /\ TypeOfInput("result")
    /\ data.obj["duration_ms"] = JFloat(10007)
    /\ parsed.msg.ptr.DurationMs = 1000
    /\ Is(data.obj, "total_cost_usd", "string")
    /\ parsed.msg.ptr.TotalCostUSD = JNull
    /\ parsed.msg.ptr.Usage # JNull

\* C21: every result message of a successful parse has DurationMs >= 0,
\* DurationAPIMs >= 0, NumTurns >= 0 and a SessionID that is not empty.
C21_ResultNonNegative ==
    (Succeeded /\ TypeOfInput("result")) =>
        /\ parsed.msg.ptr.DurationMs >= 0
        /\ parsed.msg.ptr.DurationAPIMs >= 0
        /\ parsed.msg.ptr.NumTurns >= 0
        /\ parsed.msg.ptr.SessionID # ""

\* The value of a number, whatever its Go type.
SameNumber(field) ==
    /\ Is(parsed.json.obj, field, "float64")
    /\ parsed.json.obj[field].num = data.obj[field].num
\* The content of the input, where the parser found it.
ContentRead ==
    IF NestedIs("string") \/ NestedIs("[]any") THEN NestedContent
    ELSE data.obj["content"]

\* C22: the message of a successful parse, serialised again, has the required
\* fields of the input with the values of the input: the content of a user
\* object, nested or top-level; the subtype of a system object; and subtype,
\* session_id, is_error and the three numbers of a result object.
C22_RoundTrip ==
    (parsed.called /\ parsed.err.kind = NIL /\ parsed.marshalled) =>
        /\ TypeOfInput("user") => parsed.json.obj["content"] = ContentRead
        /\ TypeOfInput("system") => parsed.json.obj["subtype"] = data.obj["subtype"]
        /\ TypeOfInput("result") =>
             /\ parsed.json.obj["subtype"] = data.obj["subtype"]
             /\ parsed.json.obj["session_id"] = data.obj["session_id"]
             /\ parsed.json.obj["is_error"] = data.obj["is_error"]
             /\ SameNumber("duration_ms") /\ SameNumber("duration_api_ms")
             /\ SameNumber("num_turns")

\* The message an error was constructed with.
MessageGiven(x) ==
    IF x.err.kind = "CLINotFoundError"
    THEN "Claude Code CLI not found at path: " \o x.args.cliPath
    ELSE x.args.message
\* The errors below the error at place i, by the causes given at construction.
RECURSIVE CausesBelow(_)
CausesBelow(c) ==
    IF c \notin Constructed THEN {}
    ELSE LET given == chain[CHOOSE i \in 1..Len(chain) : Name(i) = c].args.cause
         IN IF given = NIL THEN {} ELSE {given} \cup CausesBelow(given)

\* C23: for every SDK error, Error() is the message when no cause was given
\* and the message, ": " and the cause's Error() otherwise; Unwrap is the
\* cause given; errors.Is finds every cause below it, however deep; and
\* CLIPath, ExitCode, Stderr and RawData are the arguments given.
C23_ErrorsWrap ==
    \A i \in 1..Len(chain) :
        LET x == chain[i] IN
        /\ Error(Name(i)) = IF x.args.cause = NIL THEN MessageGiven(x)
                            ELSE MessageGiven(x) \o ": " \o Error(x.args.cause)
        /\ Unwrap(x.err) = x.args.cause
        /\ \A c \in CausesBelow(Name(i)) : errorsIs(Name(i), c)
        /\ x.err.cliPath = x.args.cliPath /\ x.err.exitCode = x.args.exitCode
        /\ x.err.stderr = x.args.stderr /\ x.err.rawData = x.args.rawData

\* A connection error wraps a process error that wraps an SDK error that
\* wraps a foreign error, which errors.Is finds from the top.
C23_Witness ==
    /\ Len(chain) = 3
    /\ chain[1].err.kind = "ClaudeSDKError" /\ chain[1].args.cause = RootCause
    /\ chain[2].err.kind = "ProcessError" /\ chain[2].args.cause = Name(1)
    /\ chain[3].err.kind = "CLIConnectionError" /\ chain[3].args.cause = Name(2)
    /\ errorsIs(Name(3), RootCause) /\ errorsIs(Name(3), Name(1))
    /\ Error(Name(3)) = "connection error: process failed: sdk error: root cause"
    /\ chain[2].err.exitCode = 1
\* The states of the producer inside the body of ReceiveMessages' goroutine,
\* handleProcessCompletion included.
ProducerBody ==
    {"scan", "scan_nil", "check", "send", "scanerr", "hpc", "collect",
     "pwait", "pwaiting", "exitmsg"}
\* The states of a task inside cleanup; "cl_ret" is cleanup's return.
CleanupBody == {"cl_pipes", "cl_sig", "cl_spawn", "cl_await", "cl_nil"}

\* C24: the producer leaves its body, at EOF, on a scanner error or on
\* cancellation, only into cleanup; it closes the transport channel only in
\* the step that follows cleanup's return; the channel is closed exactly when
\* the producer has finished, and no step closes a closed channel.
C24_CleanupThenClose ==
    /\ [](messageCh.closed <=> pc["prod"] = "done")
    /\ [][/\ (pc["prod"] \in ProducerBody /\ pc'["prod"] # pc["prod"])
                => pc'["prod"] \in ProducerBody \cup {"cl_pipes"}
          /\ (pc["prod"] \in CleanupBody /\ pc'["prod"] # pc["prod"])
                => pc'["prod"] \in CleanupBody \cup {"cl_ret"}
          /\ (pc["prod"] = "cl_ret" /\ pc'["prod"] # "cl_ret")
                => pc'["prod"] = "done" /\ ~messageCh.closed /\ messageCh'.closed
          /\ (messageCh'.closed /\ ~messageCh.closed)
                => pc["prod"] = "cl_ret" /\ pc'["prod"] = "done"]_vars

\* A cancelled producer has left the loop before the last line, run cleanup
\* and closed the transport channel.
C24_Witness ==
    /\ Streaming /\ ctxDone /\ rd < Len(plan.stdout)
    /\ pc["prod"] = "done" /\ messageCh.closed
    /\ proc.st = "reaped" /\ t.cmd = NIL /\ t.stdout = NIL
\* The task is in cleanup's signal-and-wait steps on the process.
SignalsOrWaits(self) == pc[self] \in {"cl_spawn", "cl_await"}

\* C25: within one query the producer's deferred cleanup and the forwarder's
\* deferred Disconnect are never inside cleanup at the same time, and never
\* both in the signal-and-wait steps on the process.
C25_TeardownOnce ==
    Streaming =>
        /\ ~(pc["prod"] \in CleanupBody /\ pc["fwd"] \in CleanupBody)
        /\ ~(SignalsOrWaits("prod") /\ SignalsOrWaits("fwd"))
\* C26: no task of a query is about to use t.cmd or t.stderr after another
\* task's cleanup has set that field to nil: the stderr reader building its
\* scanner from t.stderr, handleProcessCompletion calling t.cmd.Wait(), and
\* cleanup's Wait goroutine and Kill using t.cmd.
C26_NoUseAfterRelease ==
    Streaming =>
        /\ pc["errd"] = "start" => t.stderr # NIL
        /\ pc["prod"] = "pwait" => t.cmd # NIL
        /\ \A self \in Cleaners :
              /\ pc[self] = "cl_spawn" => t.cmd # NIL
              /\ (pc[self] = "cl_await" /\ proc.st = "running") => t.cmd # NIL
\* The forwarder ends its loop in this step: the transport channel is closed
\* and drained, or the select took ctx.Done().
ForwardingEnds ==
    /\ pc["fwd"] \in {"recv", "send"} /\ pc'["fwd"] \notin {"recv", "send"}

\* C27: in Client.Query the forwarder, when forwarding ends, enters
\* Disconnect, and closes the caller-facing channel only in the step after
\* Disconnect's return; that channel is closed exactly when the forwarder has
\* finished; Query itself calls Disconnect when ReceiveMessages fails and
\* returns a nil stream after it.
C27_DisconnectThenClose ==
    /\ [](mode = "query" => (wrappedCh.closed <=> pc["fwd"] = "done"))
    /\ [][mode = "query" =>
             /\ ForwardingEnds => pc'["fwd"] = "cl_pipes"
             /\ (pc["fwd"] \in CleanupBody /\ pc'["fwd"] # pc["fwd"])
                   => pc'["fwd"] \in CleanupBody \cup {"cl_ret"}
             /\ (pc["fwd"] = "cl_ret" /\ pc'["fwd"] # "cl_ret")
                   => pc'["fwd"] = "done" /\ ~wrappedCh.closed /\ wrappedCh'.closed
             /\ (wrappedCh'.closed /\ ~wrappedCh.closed)
                   => pc["fwd"] = "cl_ret" /\ pc'["fwd"] = "done"
             /\ (pc["main"] = "start" /\ pc'["main"] # "start")
                   => IF result'.connect.kind # NIL THEN pc'["main"] = "returned"
                      ELSE IF Connected(t') THEN pc'["main"] = "recv"
                      ELSE pc'["main"] = "cl_pipes" /\ result'.stream = NIL
             /\ pc'["main"] = "returned"
                   => pc["main"] \in {"start", "cl_ret", "returned"}]_vars

\* The forwarder left its loop on ctx.Done() with the caller-facing channel
\* full, Disconnect has returned and the channel is closed.
C27_Witness ==
    /\ Streaming /\ ctxDone /\ pc["fwd"] = "done" /\ wrappedCh.closed
    /\ ~HasRoom(wrappedCh, ChanCap) /\ ~messageCh.closed
    /\ t.cmd = NIL /\ proc.st = "reaped"
\* The messages made from stdout lines that the caller has not received: in
\* the caller-facing channel, in the forwarder's hand, in the transport
\* channel, and the one the producer is trying to send.
InFlight == wrappedCh.q \o (IF fmsg = NoMsg THEN <<>> ELSE <<fmsg>>) \o messageCh.q
Undelivered ==
    Count(InFlight, FromLine) + (IF pc["prod"] = "send" THEN 1 ELSE 0)

\* C28, as the specification states it: the messages produced from stdout
\* lines and not yet received number at most the capacity of one channel.
C28_AtMostCapacity == Streaming => Undelivered <= ChanCap

\* C28: the messages produced from stdout lines and not yet received number
\* at most the capacity of the two channels plus the message in the
\* forwarder's hand and the one in the producer's; each channel holds at most
\* its capacity; the producer reads a stdout line only while it holds no
\* unsent message, so that it reads none while that bound is reached.
C28_Backpressure ==
    /\ [](Streaming =>
            /\ Undelivered <= 2 * ChanCap + 2
            /\ Len(messageCh.q) <= ChanCap /\ Len(wrappedCh.q) <= ChanCap)
    /\ [][(Streaming /\ rd' # rd) =>
            /\ rd' = rd + 1 /\ pc["prod"] = "scan"
            /\ Undelivered <= 2 * ChanCap + 1]_vars

\* Both channels are full, the forwarder and the producer each hold a
\* message, the subprocess has written a further line and the producer does
\* not read it.
C28_Witness ==
    /\ Streaming /\ Undelivered = 2 * ChanCap + 2
    /\ pc["prod"] = "send" /\ ~HasRoom(messageCh, ChanCap)
    /\ written > rd /\ ~ENABLED Scan
\* This step puts a message made from a stdout line on the transport channel.
LineMessageSent ==
    /\ Len(messageCh'.q) > Len(messageCh.q)
    /\ FromLine(messageCh'.q[Len(messageCh'.q)])

\* C29: a message made from a stdout line reaches the transport channel only
\* through the select of the loop's send, which has the cancellation case;
\* once the context is cancelled it stays so, and a producer that is not at
\* that send never comes to it: a line read after the cancellation produces no
\* message, and the producer sends at most the message it was trying to send
\* when the context was cancelled.
C29_CancelChecked ==
    /\ [][(Streaming /\ LineMessageSent)
             => /\ pc["prod"] = "send" /\ pc'["prod"] = "scan"
                /\ HasRoom(messageCh, ChanCap)
                /\ messageCh'.q = Append(messageCh.q, cur)]_vars
    /\ [][(Streaming /\ ctxDone /\ pc["prod"] # "send")
             => (ctxDone' /\ pc'["prod"] # "send")]_vars

\* The context is cancelled, the producer has read a line that parses and
\* left the loop without a message of that line, the message of the line
\* before it being in the pipeline.
C29_Witness ==
    /\ Streaming /\ ctxDone /\ rd >= 2
    /\ pc["prod"] \in CleanupBody \cup {"cl_ret", "done"}
    /\ plan.stdout[rd] = MsgLine
    /\ \A n \in 1..Len(Pipeline) : Pipeline[n].id # rd
    /\ \E n \in 1..Len(Pipeline) : Pipeline[n] = Msg("msg", rd - 1)
\* The task's cleanup delivers the interrupt in this step.
InterruptSent(self) == pc[self] = "cl_sig" /\ pc'[self] = "cl_spawn"
\* The task's cleanup kills the process in this step: at once, the interrupt
\* having failed, or at the timeout of the graceful wait.
KillAtOnce(self) ==
    /\ pc[self] = "cl_sig" /\ pc'[self] = "cl_ret" /\ HoldsProcess(t, proc)
KillOnTimeout(self) == AwaitExit(self) /\ pc'[self] = "cl_await" /\ ~panicked'
\* cleanup returns in this step.
CleanupReturns(self) == pc[self] \in CleanupBody /\ pc'[self] = "cl_ret"

\* A kill follows an interrupt that failed, or a graceful wait at whose
\* timeout the process still runs; cleanup returns only when the process it
\* was called on has terminated and been waited for.
KillLast(self) ==
    /\ KillAtOnce(self) => ~SignalDelivered(proc)
    /\ KillOnTimeout(self) => (proc.st = "running" /\ proc' = Killed(proc))
    /\ (pc'[self] = "cl_await" /\ pc[self] # "cl_await")
          => (pc[self] = "cl_spawn" /\ proc.st # "none")
    /\ (pc'[self] = "cl_spawn" /\ pc[self] # "cl_spawn") => InterruptSent(self)
    /\ CleanupReturns(self) => proc'.st \in {"none", "reaped"}

CloseFails(n, closeOnce) == t[n] # NIL /\ CloseError(pipe, n, closeOnce) # NIL
\* The error of the first failing close in the order stdin, stdout, stderr.
ExpectedCloseError(closeOnce) ==
    IF CloseFails("stdin", closeOnce) THEN CloseError(pipe, "stdin", closeOnce)
    ELSE IF CloseFails("stdout", closeOnce) THEN CloseError(pipe, "stdout", closeOnce)
    ELSE IF CloseFails("stderr", closeOnce) THEN CloseError(pipe, "stderr", closeOnce)
    ELSE NIL

\* C31: a Disconnect's closes leave every held pipe closed and released and
\* go on to the process whatever they returned; firstErr is the error of the
\* first failing close in the order stdin, stdout, stderr, nil when none
\* fails; the steps on the process leave firstErr as it is; Disconnect
\* returns firstErr, and returns only when a started process has been waited
\* for.
C31_FirstCloseError ==
    [][mode = "api" =>
         /\ (pc["main"] = "cl_pipes" /\ pc'["main"] # "cl_pipes")
               => /\ pc'["main"] = "cl_sig"
                  /\ \E closeOnce \in BOOLEAN : firstErr' = ExpectedCloseError(closeOnce)
                  /\ \A n \in DOMAIN pipe :
                        t[n] # NIL => (pipe'[n] = "closed" /\ t'[n] = NIL)
         /\ pc["main"] \in {"cl_sig", "cl_spawn", "cl_await", "cl_nil"}
               => firstErr' = firstErr
         /\ (pc["main"] = "cl_ret" /\ pc'["main"] = "api")
               => /\ result'.disconnect = firstErr
                  /\ proc.st \in {"none", "reaped"}]_vars

\* cmd.Start failed and closed the pipes it had made; Disconnect closed the
\* three pipes again, the stdin close returned nil, the stdout and stderr
\* closes failed, and Disconnect returned the stdout error.
C31_Witness ==
    /\ mode = "api" /\ pc["main"] = "api" /\ calls = 1
    /\ result.connect.kind \notin {"none", NIL}
    /\ result.disconnect = "close stdout: file already closed"
    /\ t.stdin = NIL /\ t.stdout = NIL /\ t.stderr = NIL
\* ------------------------------------------------- the collection timeout
\* The producer is in the collection phase of handleProcessCompletion: in its
\* select loop, or in the drain loop that follows the size cap.
Collecting == ~panicked /\ pc["prod"] \in {"collect", "drain"}

\* The collection phase ends here and now: the producer goes on to cmd.Wait().
StopCollecting == Collect /\ pc'["prod"] = "pwait"

\* C32: in every state of the collection phase in which the stderr timeout
\* has fired (the reader waits for a running subprocess that keeps stderr
\* open), the producer can stop collecting and go on to await the process
\* exit, without any further stderr output; also while it drains the lines
\* that follow the size cap.
C32_TimeoutEndsCollection ==
    (Collecting /\ ReaderWaiting) => ENABLED StopCollecting

\* The timeout ends the select loop of the collection phase.
C32_TimeoutEndsSelect ==
    (Collecting /\ pc["prod"] = "collect" /\ ReaderWaiting) => ENABLED StopCollecting

\* The drain loop with nothing to drain, a running subprocess and the timer
\* fired: no step of the producer is possible.
C32_Witness ==
    /\ Collecting /\ pc["prod"] = "drain" /\ ReaderWaiting
    /\ stderrChan.q = <<>> /\ ~ENABLED Collect

\* ------------------------------------------------- the collected stderr text
\* A line of the collected text that the subprocess wrote; the other lines
\* are the markers handleProcessCompletion appends.
StderrLine(l) == \E i \in DOMAIN plan.stderr : plan.stderr[i] = l
MarkerLine(l) == l = TimeoutMarker \/ \E i \in 0..Len(plan.stderr) :
                     l = TruncationMarker(i * LineSize(BigLine))
RECURSIVE SizeSum(_)
SizeSum(lines) ==
    IF lines = <<>> THEN 0 ELSE LineSize(Head(lines)) + SizeSum(Tail(lines))
\* len(strings.Join(lines, "\n")) for lines of the subprocess.
JoinedSize(lines) ==
    IF lines = <<>> THEN 0 ELSE SizeSum(lines) + (Len(lines) - 1)
\* The text of an exit diagnostic without its marker line.
WithoutMarker(text) == SelectSeq(text, StderrLine)

\* C33: the stderr text of every exit diagnostic the caller receives is, the
\* marker line apart, at most maxStderrSize bytes long; it holds at most one
\* marker, and the marker is its last line.
C33_TextBounded ==
    \A n \in ExitDiags :
       /\ JoinedSize(WithoutMarker(received[n].text)) <= maxStderrSize
       /\ \A i \in DOMAIN received[n].text :
             ~StderrLine(received[n].text[i])
                => (MarkerLine(received[n].text[i]) /\ i = Len(received[n].text))

\* The lines counted by stderrSize stay within the cap, and a marker is the
\* last line of the text.
C33_CountedBounded ==
    \A n \in ExitDiags :
       /\ SizeSum(WithoutMarker(received[n].text)) <= maxStderrSize
       /\ \A i \in DOMAIN received[n].text :
             ~StderrLine(received[n].text[i])
                => (MarkerLine(received[n].text[i]) /\ i = Len(received[n].text))

\* An exit diagnostic whose text ends in the truncation marker was received.
C33_Witness ==
    \E n \in ExitDiags :
       /\ received[n].text # <<>>
       /\ Last(received[n].text) = TruncationMarker(FullLines * LineSize(BigLine))

\* ------------------------------------------------------ the prompt and stdin
\* Connect, called by Client.Query or by a caller of the transport, returns.
ConnectReturns == pc["main"] = "start" /\ pc'["main"] # "start"

\* The prompt is in the command line once, as the argument after --print.
PromptAfterPrint(c) ==
    /\ Len(c.args) >= 2
    /\ c.args[Len(c.args) - 1] = "--print"
    /\ \A i \in DOMAIN c.args : c.args[i] = prompt <=> i = Len(c.args)

\* C34: when Connect returns without an error the subprocess is running, its
\* stdin pipe is closed, and the prompt is the argument after --print of
\* its command line; when Connect returns an error no subprocess was started;
\* and at no time is there a subprocess whose stdin pipe is open, so nothing
\* is written to it.
C34_StdinClosedAtConnect ==
    /\ [](proc.st # "none" => pipe["stdin"] = "closed")
    /\ [][ConnectReturns =>
            IF result'.connect.kind = NIL
            THEN /\ proc' = Running
                 /\ t'.stdin # NIL /\ pipe'["stdin"] = "closed"
                 /\ pipe'["stdout"] = "open" /\ pipe'["stderr"] = "open"
                 /\ PromptAfterPrint(cmd')
            ELSE proc'.st = "none"]_vars

\* A caller of the transport has connected: the subprocess runs with its
\* stdin closed and the prompt on its command line.
C34_Witness ==
    /\ mode = "api" /\ pc["main"] = "api" /\ calls = 0
    /\ result.connect.kind = NIL
    /\ proc.st = "running" /\ pipe["stdin"] = "closed"
    /\ PromptAfterPrint(cmd)

\* ------------------------------------------- the stream closed, seen by the caller
\* The caller of Client.Query has received the close of the stream.
SeenClosed == mode = "query" /\ pc["main"] = "closed" /\ ~panicked

\* C35: when the caller has seen the stream of a query closed, the subprocess
\* has terminated and has been waited for, its three pipes are closed, and
\* the transport holds neither the process nor a pipe.
C35_ClosedMeansTornDown ==
    SeenClosed =>
       /\ proc.st = "reaped"
       /\ \A n \in DOMAIN pipe : pipe[n] = "closed"
       /\ t.cmd = NIL /\ t.stdin = NIL /\ t.stdout = NIL /\ t.stderr = NIL

\* The same of a query that was not cancelled.
C35_Uncancelled ==
    (SeenClosed /\ ~ctxDone) =>
       /\ proc.st = "reaped"
       /\ \A n \in DOMAIN pipe : pipe[n] = "closed"
       /\ t.cmd = NIL /\ t.stdin = NIL /\ t.stdout = NIL /\ t.stderr = NIL

\* The caller of a cancelled query has seen the stream closed.
C35_Witness ==
    SeenClosed /\ ctxDone /\ received # <<>> /\ proc.st = "reaped" /\ AllReleased

\* ------------------------------------------------- a query is carried through
\* The subprocess has exited.
Exited == proc.st \in {"exited", "reaped"}
\* Every goroutine of the query has returned and the caller has seen the
\* stream closed.
AllReturned ==
    /\ pc["main"] = "closed"
    /\ pc["prod"] = "done" /\ pc["fwd"] = "done"
    /\ pc["errd"] \in {"idle", "done"}
\* The caller has seen the stream closed.
StreamClosed == pc["main"] = "closed" /\ pc["prod"] = "done" /\ pc["fwd"] = "done"

\* C36: in a query that is never cancelled, whose caller keeps receiving and
\* whose subprocess eventually exits, eventually the producer has finished,
\* the caller has seen the stream closed and every goroutine of the query
\* has returned.
C36_QueryCompletes == <>Exited => <>AllReturned

\* The same without the stderr reader goroutine.
C36_StreamCloses == <>Exited => <>StreamClosed

\* ------------------------------------------------- the stderr reader goroutine
\* The reader goroutine of handleProcessCompletion has returned, or was
\* never started.
ReaderReturned == pc["errd"] \in {"idle", "done"}
\* The reader is in its select with a full channel and a context that is
\* not done.
ReaderBlocked ==
    pc["errd"] = "send" /\ ~HasRoom(stderrChan, stderrChanCap) /\ ~ctxDone

\* C37: in a query that is never cancelled, once the producer has left the
\* collection phase the reader goroutine is not left where it cannot go on:
\* whenever it can take no step it has returned, and it is never blocked in
\* its send to the stderr channel.
C37_ReaderReturns ==
    (~mayCancel /\ pc["prod"] \in {"done"} /\ ~ENABLED Reader)
        => (ReaderReturned /\ ~ReaderBlocked)

\* The query is over, the caller has seen the stream closed, and the reader
\* goroutine is blocked in its send.
C37_Witness == ~mayCancel /\ StreamClosed /\ ReaderBlocked /\ ~ENABLED LiveNext

\* ------------------------------------------------------- closing a pipe twice
\* cleanup calls Close on the pipes the transport holds.
ClosesHeldPipes == \E self \in Cleaners : ClosePipes(self)

\* C38: cleanup calls Close only on pipes that are still open, so no pipe is
\* closed twice, and a Disconnect that follows a successful Connect at once
\* returns no close error.
C38_ClosedOnce ==
    /\ [][ClosesHeldPipes => \A n \in DOMAIN pipe : t[n] # NIL => pipe[n] = "open"]_vars
    /\ [](DisconnectedAtOnce => result.disconnect = NIL)

\* cleanup calls Close on the stdout and stderr pipes only while they are open.
C38_OutputsClosedOnce ==
    [][ClosesHeldPipes =>
          \A n \in {"stdout", "stderr"} : t[n] # NIL => pipe[n] = "open"]_vars

\* A Disconnect that follows a successful Connect at once returns no error.
C38_NoCloseError == DisconnectedAtOnce => result.disconnect = NIL

\* Disconnect, called at once after a successful Connect, has returned the
\* error of closing stdin again.
C38_Witness ==
    DisconnectedAtOnce /\ result.disconnect = "close stdin: file already closed"

\* ------------------------------------------- ReceiveMessages when not connected
\* Connect returned an error, or Disconnect has returned since.
NotConnected == result.connect.kind # NIL \/ result.disconnect # "none"
\* ReceiveMessages returned the "not connected" error and started nothing.
Refused ==
    /\ result'.stream = "not connected"
    /\ pc'["prod"] = pc["prod"] /\ pc'["main"] = pc["main"]
    /\ messageCh' = messageCh

\* C39: ReceiveMessages returns a stream and starts a producer only on a
\* transport whose Connect succeeded; after a Connect that returned an error
\* and after Disconnect it returns the "not connected" error and starts
\* nothing.
C39_NotConnectedRefused ==
    [][ApiReceive =>
         /\ NotConnected => Refused
         /\ result'.stream = "messageCh"
               => (result.connect.kind = NIL /\ pc'["prod"] = "scan")]_vars

\* The same for a transport that was disconnected after a successful Connect.
C39_AfterDisconnect ==
    [][(ApiReceive /\ result.connect.kind = NIL)
          => /\ result.disconnect # "none" => Refused
             /\ result'.stream = "messageCh" => pc'["prod"] = "scan"]_vars

\* ReceiveMessages, called after a Connect that failed, has returned a stream,
\* and its producer has crashed the program on the stdout that was never made.
C39_Witness ==
    /\ mode = "api" /\ result.connect.kind \notin {NIL, "none"}
    /\ result.stream = "messageCh" /\ t.stdout = NIL /\ panicked

====
